---- MODULE Spec2Model ----
(***************************************************************************)
(* Model of pathfinder's query plane:                                      *)
(*   - the sequencer error translator                                      *)
(*       crates/pathfinder/src/sequencer/error.rs                          *)
(*   - the JSON-RPC dispatcher set up by run_server                        *)
(*       crates/pathfinder/src/rpc.rs                                      *)
(*   - the header protocol codec of the peer-to-peer layer                 *)
(*       crates/p2p_proto/src/header.rs                                    *)
(* Strings that the code inspects (error messages, hex literals) are       *)
(* sequences of one-token strings, so that `contains` and hex parsing are  *)
(* computed, not assumed.                                                  *)
(***************************************************************************)
EXTENDS Integers, Sequences, FiniteSets, TLC

VARIABLES
    seqError,      \* translator: the SequencerError handed to From::from
    rpcError,      \* translator: the rpc::Error produced, or NoValue
    pcServer,      \* run_server: "registering" | "started" | "failed"
    module,        \* run_server: names registered in the RpcModule, in order
    pc,            \* request: "idle" | "await" | "done"
    req,           \* request: the JSON-RPC request being handled, or NoValue
    call,          \* request: the RpcApi method invoked with its typed args
    backendCalls,  \* request: storage/sequencer calls issued for this request
    resp,          \* request: the response, or NoValue
    pcCodec,       \* codec: "idle" | "value" | "proto" | "wire" | "parsed" | "decoded"
    codecType,     \* codec: the message type converted
    codecValue,    \* codec: the value handed to to_protobuf
    fieldName,     \* codec: the field_name handed to try_from_protobuf
    protoMsg,      \* codec: the protobuf message
    wire,          \* codec: the wire form of the protobuf message
    decoded,       \* codec: the result of try_from_protobuf, or NoValue
    dropped,       \* codec: name of the field the message lost, or "-"
    unknownAdded,  \* codec: an unknown trailing field was added on the wire
    peer,          \* stream: the responder is "honest" or "faulty" (or "-")
    iteration,     \* stream: the Iteration of the BlockHeadersRequest
    respPc,        \* stream: responder "idle" | "serving" | "done"
    toSend,        \* stream: block numbers the responder has still to send
    sent,          \* stream: the messages written to the stream, in wire form
    channel,       \* stream: the messages written and not yet read
    transport,     \* stream: "open" | "cancelled" | "closed"
    reqPc,         \* stream: requester "idle" | "waiting" | "complete" |
                   \*         "violation" | "rejected"
    reply,         \* stream: the headers the requester has accepted
    received,      \* stream: what the requester has read, in order
    clientPc,      \* client_request: "idle" | "loop" | "request" | "match" |
                   \*                 "returned"
    sleep_time_ms, \* client_request: the local of that name
    attempts,      \* client_request: requests sent
    started,       \* client_request: storages, sequencer clients and servers built
    slept,         \* client_request: the sleeps made, in ms, in order
    outcome,       \* client_request: the result of the last request, or NoValue
    returned,      \* client_request: the value returned, or NoValue
    flight,        \* concurrent requests: the state of each request slot
    backend        \* concurrent requests: what the storage and the sequencer hold

rpcVars == <<seqError, rpcError, pcServer, module, pc, req, call, backendCalls, resp>>
codecVars ==
    <<pcCodec, codecType, codecValue, fieldName, protoMsg, wire, decoded, dropped,
      unknownAdded>>
streamVars ==
    <<peer, iteration, respPc, toSend, sent, channel, transport, reqPc, reply, received>>
clientVars ==
    <<clientPc, sleep_time_ms, attempts, started, slept, outcome, returned, flight, backend>>
vars == <<rpcVars, codecVars, streamVars, clientVars>>

NoValue == [kind |-> "None"]

(***************************************************************************)
(* Bounds of the model.                                                    *)
(***************************************************************************)
\* longest sequencer message, in tokens
MaxMsgLen == 3
\* number of the block at the tip of the chain a header stream is served from
ChainTip == 2
\* largest limit and largest step of an Iteration
MaxLimit == 3
MaxStep == 2
\* most requests in flight at once
MaxInFlight == 2
\* most messages a faulty peer writes to one stream
MaxFaultyMsgs == 3
\* hex digits of the wide (H256) container; stands for 64
HexDigits == 2
\* bits of the block-number integer; stands for 64
NumberBits == 2

(***************************************************************************)
(* Sequencer errors (sequencer/error.rs).                                  *)
(***************************************************************************)
StarknetErrorCode ==
    { "BlockNotFound", "EntryPointNotFound", "OutOfRangeContractAddress",
      "OutOfRangeStorageKey", "SchemaValidationError", "TransactionFailed",
      "UninitializedContract", "OutOfRangeBlockHash",
      "OutOfRangeTransactionHash", "MalformedRequest" }

\* "Block ID should be in the range", cut in two tokens
BlockIdNeedle == <<"Block ID should be ", "in the range">>

\* the text of an HTTP 429 status in an error, one token
TooManyRequests == <<"(429 Too Many Requests)">>

RECURSIVE SeqsUpTo(_, _)
SeqsUpTo(S, n) ==
    IF n = 0 THEN {<<>>}
    ELSE LET shorter == SeqsUpTo(S, n - 1)
         IN  shorter \cup {Append(s, x) : s \in {t \in shorter : Len(t) = n - 1}, x \in S}

\* sequencer messages: the tokens of the needle and one more
Messages ==
    SeqsUpTo({"Block ID should be ", "in the range", " [0, 12345)."}, MaxMsgLen)

\* a prefix test instead of a substring test
ContainsAtStartOnly(s, sub) ==
    Len(sub) <= Len(s) /\ SubSeq(s, 1, Len(sub)) = sub

\* str::contains
Contains(s, sub) ==
    \E i \in 0..(Len(s) - Len(sub)) : SubSeq(s, i + 1, i + Len(sub)) = sub

\* enum SequencerError: the variant and the error it wraps; the wrapped
\* serde_json / anyhow / reqwest errors are their message text
SequencerErrorsOver(msgs) ==
    [variant : {"DeserializationError", "ParseError", "TransportError"},
     code : {"-"}, message : msgs]
    \cup [variant : {"StarknetError"}, code : StarknetErrorCode, message : msgs]

SequencerError == SequencerErrorsOver(Messages)

\* impl Display for StarknetError: write!(f, "{:?}", self)
StarknetErrorDisplay(e) ==
    <<"StarknetError { code: ", e.code, ", message: \"">> \o e.message \o <<"\" }">>

(***************************************************************************)
(* RPC error codes (rpc::types::reply::ErrorCode).                          *)
(***************************************************************************)
\* ErrorCode::X as i32
RpcErrorCodeAsI32(name) ==
    CASE name = "ContractNotFound"        -> 20
      [] name = "InvalidMessageSelector"  -> 21
      [] name = "InvalidCallData"         -> 22
      [] name = "InvalidStorageKey"       -> 23
      [] name = "InvalidBlockHash"        -> 24
      [] name = "InvalidTransactionHash"  -> 25
      [] name = "InvalidBlockNumber"      -> 26

\* the message paired with each code
RpcErrorCodeStr(name) ==
    CASE name = "ContractNotFound"        -> "Contract not found"
      [] name = "InvalidMessageSelector"  -> "Invalid message selector"
      [] name = "InvalidCallData"         -> "Invalid call data"
      [] name = "InvalidStorageKey"       -> "Invalid storage key"
      [] name = "InvalidBlockHash"        -> "Invalid block hash"
      [] name = "InvalidTransactionHash"  -> "Invalid transaction hash"
      [] name = "InvalidBlockNumber"      -> "Invalid block number"

\* ErrorCode::InvalidTransactionHashStr
InvalidTransactionHashStr == RpcErrorCodeStr("InvalidTransactionHash")

\* rpc::Error::Call(CallError::Custom { code, message, data })
Custom(code, message) ==
    [kind |-> "Custom", code |-> code, message |-> message, data |-> "None"]

\* rpc::Error::Call(CallError::Failed(e))
Failed(text) == [kind |-> "Failed", error |-> text]

\* impl From<ErrorCode> for rpc::Error
RpcErrorCodeInto(name) == Custom(RpcErrorCodeAsI32(name), RpcErrorCodeStr(name))

(***************************************************************************)
(* impl From<SequencerError> for rpc::Error                                *)
(***************************************************************************)
\* BlockNotFound sent to the contract-not-found arm
FromStarknetErrorBlockNotFoundAs20(e) ==
    CASE e.code = "OutOfRangeBlockHash" -> RpcErrorCodeInto("InvalidBlockHash")
      [] e.code \in {"OutOfRangeContractAddress", "UninitializedContract",
                     "BlockNotFound"} ->
            RpcErrorCodeInto("ContractNotFound")
      [] e.code = "OutOfRangeTransactionHash" ->
            Custom(RpcErrorCodeAsI32("InvalidTransactionHash"), InvalidTransactionHashStr)
      [] e.code = "OutOfRangeStorageKey" -> RpcErrorCodeInto("InvalidStorageKey")
      [] e.code = "TransactionFailed" -> RpcErrorCodeInto("InvalidCallData")
      [] e.code = "EntryPointNotFound" -> RpcErrorCodeInto("InvalidMessageSelector")
      [] e.code = "MalformedRequest" /\ Contains(e.message, BlockIdNeedle) ->
            RpcErrorCodeInto("InvalidBlockNumber")
      [] OTHER -> Failed(StarknetErrorDisplay(e))

\* the hand-built Custom error of OutOfRangeTransactionHash given the
\* message of another code
FromStarknetErrorWrongTxHashMessage(e) ==
    CASE e.code \in {"OutOfRangeBlockHash", "BlockNotFound"} ->
            RpcErrorCodeInto("InvalidBlockHash")
      [] e.code \in {"OutOfRangeContractAddress", "UninitializedContract"} ->
            RpcErrorCodeInto("ContractNotFound")
      [] e.code = "OutOfRangeTransactionHash" ->
            Custom(RpcErrorCodeAsI32("InvalidTransactionHash"),
                   RpcErrorCodeStr("InvalidBlockHash"))
      [] e.code = "OutOfRangeStorageKey" -> RpcErrorCodeInto("InvalidStorageKey")
      [] e.code = "TransactionFailed" -> RpcErrorCodeInto("InvalidCallData")
      [] e.code = "EntryPointNotFound" -> RpcErrorCodeInto("InvalidMessageSelector")
      [] e.code = "MalformedRequest" /\ Contains(e.message, BlockIdNeedle) ->
            RpcErrorCodeInto("InvalidBlockNumber")
      [] OTHER -> Failed(StarknetErrorDisplay(e))

\* the message tested for the block-id text whatever the code
FromStarknetErrorAnyCodeCarvedOut(e) ==
    CASE Contains(e.message, BlockIdNeedle) -> RpcErrorCodeInto("InvalidBlockNumber")
      [] e.code \in {"OutOfRangeBlockHash", "BlockNotFound"} ->
            RpcErrorCodeInto("InvalidBlockHash")
      [] e.code \in {"OutOfRangeContractAddress", "UninitializedContract"} ->
            RpcErrorCodeInto("ContractNotFound")
      [] e.code = "OutOfRangeTransactionHash" ->
            Custom(RpcErrorCodeAsI32("InvalidTransactionHash"), InvalidTransactionHashStr)
      [] e.code = "OutOfRangeStorageKey" -> RpcErrorCodeInto("InvalidStorageKey")
      [] e.code = "TransactionFailed" -> RpcErrorCodeInto("InvalidCallData")
      [] e.code = "EntryPointNotFound" -> RpcErrorCodeInto("InvalidMessageSelector")
      [] OTHER -> Failed(StarknetErrorDisplay(e))

FromStarknetError(e) ==
    CASE e.code \in {"OutOfRangeBlockHash", "BlockNotFound"} ->
            RpcErrorCodeInto("InvalidBlockHash")
      [] e.code \in {"OutOfRangeContractAddress", "UninitializedContract"} ->
            RpcErrorCodeInto("ContractNotFound")
      [] e.code = "OutOfRangeTransactionHash" ->
            Custom(RpcErrorCodeAsI32("InvalidTransactionHash"), InvalidTransactionHashStr)
      [] e.code = "OutOfRangeStorageKey" -> RpcErrorCodeInto("InvalidStorageKey")
      [] e.code = "TransactionFailed" -> RpcErrorCodeInto("InvalidCallData")
      [] e.code = "EntryPointNotFound" -> RpcErrorCodeInto("InvalidMessageSelector")
      [] e.code = "MalformedRequest" /\ Contains(e.message, BlockIdNeedle) ->
            RpcErrorCodeInto("InvalidBlockNumber")
      [] OTHER -> Failed(StarknetErrorDisplay(e))

\* the transport error replaced by a fixed text
FromSequencerErrorDropsTransportText(e) ==
    CASE e.variant = "DeserializationError" -> Failed(e.message)
      [] e.variant = "ParseError" -> Failed(e.message)
      [] e.variant = "StarknetError" -> FromStarknetError(e)
      [] e.variant = "TransportError" -> Failed(<<"transport error">>)

FromSequencerError(e) ==
    CASE e.variant = "DeserializationError" -> Failed(e.message)
      [] e.variant = "ParseError" -> Failed(e.message)
      [] e.variant = "StarknetError" -> FromStarknetError(e)
      [] e.variant = "TransportError" -> Failed(e.message)

(***************************************************************************)
(* JSON values and the typed parameters they deserialize to.               *)
(***************************************************************************)
JStr(s) == [t |-> "string", s |-> s, n |-> 0]
JInt(n) == [t |-> "number", s |-> <<>>, n |-> n]
\* a JSON object that is a well-formed `Call` request
JCall == [t |-> "object", s |-> <<"Call">>, n |-> 0]

Typed(k, n, s) == [k |-> k, n |-> n, s |-> s]
DeOk(v) == [ok |-> TRUE, v |-> v]
DeErr == [ok |-> FALSE, v |-> Typed("Error", 0, "")]

RECURSIVE Pow2(_)
Pow2(n) == IF n = 0 THEN 1 ELSE 2 * Pow2(n - 1)

HexDigitValue(c) ==
    CASE c = "0" -> 0 [] c = "1" -> 1 [] c = "2" -> 2 [] c = "3" -> 3
      [] c = "4" -> 4 [] c = "5" -> 5 [] c = "6" -> 6 [] c = "7" -> 7
      [] c = "8" -> 8 [] c = "9" -> 9 [] c = "a" -> 10 [] c = "b" -> 11
      [] c = "c" -> 12 [] c = "d" -> 13 [] c = "e" -> 14 [] c = "f" -> 15

RECURSIVE HexValue(_)
HexValue(ds) ==
    IF ds = <<>> THEN 0
    ELSE 16 * HexValue(SubSeq(ds, 1, Len(ds) - 1)) + HexDigitValue(ds[Len(ds)])

\* "0x" followed by 1..HexDigits hex digits
IsHexLiteral(s) ==
    /\ Len(s) >= 3
    /\ Len(s) <= 2 + HexDigits
    /\ s[1] = "0"
    /\ s[2] = "x"
    /\ \A i \in 3..Len(s) :
          s[i] \in {"0", "1", "2", "3", "4", "5", "6", "7", "8", "9",
                    "a", "b", "c", "d", "e", "f"}

HexLiteralValue(s) == HexValue(SubSeq(s, 3, Len(s)))

\* exclusive upper bound of a field element / storage address: the five
\* high-order bits of the wide container must be clear (2^251 of 2^256)
FeltBound == Pow2(4 * HexDigits - 5)

\* exclusive upper bound of a block number / transaction index (u64)
NumberBound == Pow2(NumberBits)

TagLatest == <<"l", "a", "t", "e", "s", "t">>
TagPending == <<"p", "e", "n", "d", "i", "n", "g">>

\* StarkHash newtypes (StarknetBlockHash, ContractAddress, ...): the narrow
\* parser, which rejects a value that does not fit the field
DeFelt(kind, j) ==
    IF j.t = "string" /\ IsHexLiteral(j.s) /\ HexLiteralValue(j.s) < FeltBound
    THEN DeOk(Typed(kind, HexLiteralValue(j.s), ""))
    ELSE DeErr

\* OverflowingStorageAddress(H256): the wide parser, no range check
DeOverflowingStorageAddress(j) ==
    IF j.t = "string" /\ IsHexLiteral(j.s)
    THEN DeOk(Typed("OverflowingStorageAddress", HexLiteralValue(j.s), ""))
    ELSE DeErr

\* enum Tag { Latest, Pending }
DeTag(j) ==
    IF j.t = "string" /\ j.s = TagLatest THEN DeOk(Typed("Tag", 0, "Latest"))
    ELSE IF j.t = "string" /\ j.s = TagPending THEN DeOk(Typed("Tag", 0, "Pending"))
    ELSE DeErr

\* u64 newtypes (StarknetBlockNumber, StarknetTransactionIndex)
DeU64(kind, j) ==
    IF j.t = "number" /\ j.n >= 0 /\ j.n < NumberBound
    THEN DeOk(Typed(kind, j.n, ""))
    ELSE DeErr

ScopeTxnHash == <<"TXN_HASH">>
ScopeFullTxns == <<"FULL_TXNS">>
ScopeFullTxnAndReceipts == <<"FULL_TXN_AND_RECEIPTS">>

\* enum BlockResponseScope
DeBlockResponseScope(j) ==
    IF j.t = "string" /\ j.s \in {ScopeTxnHash, ScopeFullTxns, ScopeFullTxnAndReceipts}
    THEN DeOk(Typed("Scope", 0, j.s[1]))
    ELSE DeErr

NoneValue == Typed("None", 0, "")

Deserialize(type, j) ==
    CASE type = "BlockHashOrTag" ->
            \* enum BlockHashOrTag { Hash(StarknetBlockHash), Tag(Tag) }
            IF DeFelt("Hash", j).ok THEN DeFelt("Hash", j) ELSE DeTag(j)
      [] type = "BlockNumberOrTag" ->
            \* enum BlockNumberOrTag { Number(StarknetBlockNumber), Tag(Tag) }
            IF DeU64("Number", j).ok THEN DeU64("Number", j) ELSE DeTag(j)
      [] type = "ContractAddress" -> DeFelt("ContractAddress", j)
      [] type = "StorageAddress" -> DeFelt("StorageAddress", j)
      [] type = "OverflowingStorageAddress" -> DeOverflowingStorageAddress(j)
      [] type = "StarknetTransactionHash" -> DeFelt("StarknetTransactionHash", j)
      [] type = "StarknetTransactionIndex" -> DeU64("StarknetTransactionIndex", j)
      [] type = "Call" ->
            \* struct Call
            IF j = JCall THEN DeOk(Typed("Call", 0, "")) ELSE DeErr
      [] type = "Option<BlockResponseScope>" ->
            \* Option<T>: null is None
            IF j.t = "null" THEN DeOk(NoneValue) ELSE DeBlockResponseScope(j)

(***************************************************************************)
(* run_server: the methods registered, in source order.  Each entry holds  *)
(* the registered name (prefix and rest of the literal), how the closure   *)
(* binds its params, the NamedArgs fields, the RpcApi method it awaits and *)
(* the fields it passes to that method.                                    *)
(***************************************************************************)
Field(name, type, default) == [name |-> name, type |-> type, default |-> default]

Method(rest, bind, fields, api, passes) ==
    [name |-> <<"starknet_", rest>>, bind |-> bind, fields |-> fields,
     api |-> api, passes |-> passes]

\* requested_scope declared without #[serde(default)]
GetBlockByHashScopeRequired ==
    Method("getBlockByHash", "NamedArgs",
           <<Field("block_hash", "BlockHashOrTag", FALSE),
             Field("requested_scope", "Option<BlockResponseScope>", FALSE)>>,
           "get_block_by_hash", <<"block_hash", "requested_scope">>)

GetBlockByHash ==
    Method("getBlockByHash", "NamedArgs",
           <<Field("block_hash", "BlockHashOrTag", FALSE),
             Field("requested_scope", "Option<BlockResponseScope>", TRUE)>>,
           "get_block_by_hash", <<"block_hash", "requested_scope">>)

\* block_number declared with the type of block_hash
GetBlockByNumberTakesHash ==
    Method("getBlockByNumber", "NamedArgs",
           <<Field("block_number", "BlockHashOrTag", FALSE),
             Field("requested_scope", "Option<BlockResponseScope>", TRUE)>>,
           "get_block_by_number", <<"block_number", "requested_scope">>)

GetBlockByNumber ==
    Method("getBlockByNumber", "NamedArgs",
           <<Field("block_number", "BlockNumberOrTag", FALSE),
             Field("requested_scope", "Option<BlockResponseScope>", TRUE)>>,
           "get_block_by_number", <<"block_number", "requested_scope">>)

GetStateUpdateByHash ==
    Method("getStateUpdateByHash", "ObjectOrOne",
           <<Field("block_hash", "BlockHashOrTag", FALSE)>>,
           "get_state_update_by_hash", <<"block_hash">>)

\* NamedArgs declared with key and block_hash exchanged
GetStorageAtFieldsReordered ==
    Method("getStorageAt", "NamedArgs",
           <<Field("contract_address", "ContractAddress", FALSE),
             Field("block_hash", "BlockHashOrTag", FALSE),
             Field("key", "OverflowingStorageAddress", FALSE)>>,
           "get_storage_at", <<"contract_address", "key", "block_hash">>)

\* the key taken with the narrow type, whose parser rejects an overflow
GetStorageAtNarrowKey ==
    Method("getStorageAt", "NamedArgs",
           <<Field("contract_address", "ContractAddress", FALSE),
             Field("key", "StorageAddress", FALSE),
             Field("block_hash", "BlockHashOrTag", FALSE)>>,
           "get_storage_at", <<"contract_address", "key", "block_hash">>)

GetStorageAt ==
    Method("getStorageAt", "NamedArgs",
           <<Field("contract_address", "ContractAddress", FALSE),
             Field("key", "OverflowingStorageAddress", FALSE),
             Field("block_hash", "BlockHashOrTag", FALSE)>>,
           "get_storage_at", <<"contract_address", "key", "block_hash">>)

GetTransactionByHash ==
    Method("getTransactionByHash", "NamedArgs",
           <<Field("transaction_hash", "StarknetTransactionHash", FALSE)>>,
           "get_transaction_by_hash", <<"transaction_hash">>)

GetTransactionByBlockHashAndIndex ==
    Method("getTransactionByBlockHashAndIndex", "NamedArgs",
           <<Field("block_hash", "BlockHashOrTag", FALSE),
             Field("index", "StarknetTransactionIndex", FALSE)>>,
           "get_transaction_by_block_hash_and_index", <<"block_hash", "index">>)

GetTransactionByBlockNumberAndIndex ==
    Method("getTransactionByBlockNumberAndIndex", "NamedArgs",
           <<Field("block_number", "BlockNumberOrTag", FALSE),
             Field("index", "StarknetTransactionIndex", FALSE)>>,
           "get_transaction_by_block_number_and_index", <<"block_number", "index">>)

GetTransactionReceipt ==
    Method("getTransactionReceipt", "NamedArgs",
           <<Field("transaction_hash", "StarknetTransactionHash", FALSE)>>,
           "get_transaction_receipt", <<"transaction_hash">>)

GetCode ==
    Method("getCode", "NamedArgs",
           <<Field("contract_address", "ContractAddress", FALSE)>>,
           "get_code", <<"contract_address">>)

GetBlockTransactionCountByHash ==
    Method("getBlockTransactionCountByHash", "NamedArgs",
           <<Field("block_hash", "BlockHashOrTag", FALSE)>>,
           "get_block_transaction_count_by_hash", <<"block_hash">>)

GetBlockTransactionCountByNumber ==
    Method("getBlockTransactionCountByNumber", "NamedArgs",
           <<Field("block_number", "BlockNumberOrTag", FALSE)>>,
           "get_block_transaction_count_by_number", <<"block_number">>)

StarknetCall ==
    Method("call", "NamedArgs",
           <<Field("request", "Call", FALSE),
             Field("block_hash", "BlockHashOrTag", FALSE)>>,
           "call", <<"request", "block_hash">>)

BlockNumber == Method("blockNumber", "Ignored", <<>>, "block_number", <<>>)
ChainId == Method("chainId", "Ignored", <<>>, "chain_id", <<>>)
PendingTransactions ==
    Method("pendingTransactions", "Ignored", <<>>, "pending_transactions", <<>>)
ProtocolVersion ==
    Method("protocolVersion", "Ignored", <<>>, "protocol_version", <<>>)
\* the chainId registration copied without renaming it
SyncingNamedChainId == Method("chainId", "Ignored", <<>>, "chain_id", <<>>)
\* a syncing handler of its own behind starknet_syncing
SyncingStatus == Method("syncing", "Ignored", <<>>, "syncing", <<>>)

Syncing == Method("syncing", "Ignored", <<>>, "chain_id", <<>>)

\* the register_async_method calls of run_server, in order
Registrations ==
    << GetBlockByHash, GetBlockByNumber, GetStateUpdateByHash, GetStorageAt,
       GetTransactionByHash, GetTransactionByBlockHashAndIndex,
       GetTransactionByBlockNumberAndIndex, GetTransactionReceipt, GetCode,
       GetBlockTransactionCountByHash, GetBlockTransactionCountByNumber,
       StarknetCall, BlockNumber, ChainId, PendingTransactions,
       ProtocolVersion, Syncing >>

(***************************************************************************)
(* Params binding.  A request's params are absent, a JSON array or a JSON  *)
(* object; an object is a function from its keys to JSON values.           *)
(***************************************************************************)
NoParams == [form |-> "none", items |-> <<>>, fields |-> <<>>]
ArrayParams(items) == [form |-> "array", items |-> items, fields |-> <<>>]
ObjectParams(fields) == [form |-> "object", items |-> <<>>, fields |-> fields]

\* the serde error of a failed parse: its kind and the field it names
SerdeError(kind, field) == [kind |-> kind, field |-> field]
NoField == "-"

ParseErr(e) == [ok |-> FALSE, args |-> <<>>, err |-> e]

\* a derived Deserialize of a struct, from a JSON array (visit_seq): fields
\* in declaration order; a missing trailing element is an error unless the
\* field is #[serde(default)]; elements left over are an error
VisitSeq(fields, items) ==
    LET elem(i) == IF i <= Len(items) THEN Deserialize(fields[i].type, items[i])
                   ELSE IF fields[i].default THEN DeOk(NoneValue)
                   ELSE DeErr
        bad == {i \in 1..Len(fields) : ~elem(i).ok}
        first == CHOOSE i \in bad : \A j \in bad : i <= j
    IN  IF bad # {}
        THEN IF first <= Len(items)
             THEN ParseErr(SerdeError("invalid_value", NoField))
             ELSE ParseErr(SerdeError("invalid_length", NoField))
        ELSE IF Len(items) > Len(fields)
        THEN ParseErr(SerdeError("trailing_characters", NoField))
        ELSE [ok |-> TRUE, args |-> [i \in 1..Len(fields) |-> elem(i).v]]

IsOptionType(type) == type = "Option<BlockResponseScope>"

\* a missing field takes a default value whatever its type
VisitMapDefaultsMissing(fields, obj) ==
    LET elem(i) == IF fields[i].name \in DOMAIN obj
                   THEN Deserialize(fields[i].type, obj[fields[i].name])
                   ELSE DeOk(NoneValue)
    IN  IF \E i \in 1..Len(fields) : ~elem(i).ok
        THEN ParseErr(SerdeError("invalid_value", NoField))
        ELSE [ok |-> TRUE, args |-> [i \in 1..Len(fields) |-> elem(i).v]]

\* a derived Deserialize of a struct, from a JSON object (visit_map): fields
\* by name; unknown keys are ignored; a missing field is an error unless it
\* is an Option or #[serde(default)].  The values are deserialized while
\* the keys are read; the missing fields are found after the last key, in
\* declaration order, and the error names the first of them
VisitMap(fields, obj) ==
    LET elem(i) == IF fields[i].name \in DOMAIN obj
                   THEN Deserialize(fields[i].type, obj[fields[i].name])
                   ELSE IF fields[i].default \/ IsOptionType(fields[i].type)
                   THEN DeOk(NoneValue)
                   ELSE DeErr
        bad == {i \in 1..Len(fields) : ~elem(i).ok}
        badValue == {i \in bad : fields[i].name \in DOMAIN obj}
        first == CHOOSE i \in bad : \A j \in bad : i <= j
    IN  IF badValue # {}
        THEN ParseErr(SerdeError("invalid_value", NoField))
        ELSE IF bad # {}
        THEN ParseErr(SerdeError("missing_field", fields[first].name))
        ELSE [ok |-> TRUE, args |-> [i \in 1..Len(fields) |-> elem(i).v]]

\* params.parse::<NamedArgs>()
ParseNamedArgs(fields, params) ==
    CASE params.form = "array" -> VisitSeq(fields, params.items)
      [] params.form = "object" -> VisitMap(fields, params.fields)
      [] OTHER -> ParseErr(SerdeError("invalid_value", NoField))

\* params.one::<T>(): a one-element array
ParamsOne(type, params) ==
    IF params.form = "array" /\ Len(params.items) = 1
       /\ Deserialize(type, params.items[1]).ok
    THEN [ok |-> TRUE, args |-> <<Deserialize(type, params.items[1]).v>>]
    ELSE IF params.form = "array" /\ Len(params.items) = 0
    THEN ParseErr(SerdeError("invalid_length", NoField))
    ELSE IF params.form = "array" /\ Len(params.items) > 1
            /\ Deserialize(type, params.items[1]).ok
    THEN ParseErr(SerdeError("trailing_characters", NoField))
    ELSE ParseErr(SerdeError("invalid_value", NoField))

\* the single argument taken positionally whatever the shape of the params
BindParamsOneOnly(m, params) ==
    CASE m.bind = "Ignored" -> [ok |-> TRUE, args |-> <<>>]
      [] m.bind = "ObjectOrOne" -> ParamsOne(m.fields[1].type, params)
      [] OTHER -> ParseNamedArgs(m.fields, params)

\* the params handling of a registered closure
BindParams(m, params) ==
    CASE m.bind = "Ignored" -> [ok |-> TRUE, args |-> <<>>]
      [] m.bind = "ObjectOrOne" ->
            IF params.form = "object"
            THEN ParseNamedArgs(m.fields, params)
            ELSE ParamsOne(m.fields[1].type, params)
      [] OTHER -> ParseNamedArgs(m.fields, params)

FieldIndex(fields, name) == CHOOSE i \in 1..Len(fields) : fields[i].name = name

\* the RpcApi call a closure makes with the parsed params
ApiCall(m, args) ==
    [api |-> m.api,
     args |-> [i \in 1..Len(m.passes) |-> args[FieldIndex(m.fields, m.passes[i])]]]

(***************************************************************************)
(* RpcApi (rpc/api.rs) up to its first await, and the backends.            *)
(***************************************************************************)
\* what an RpcApi method does before its first suspension point: answer at
\* once, or call a backend; get_storage_at range-checks the wide key before
\* anything else
ApiEntry(c) ==
    IF c.api = "get_storage_at" /\ ~(c.args[2].n < FeltBound)
    THEN [awaits |-> "nothing", error |-> RpcErrorCodeInto("InvalidStorageKey")]
    ELSE [awaits |-> IF c.api = "get_code" THEN "storage" ELSE "sequencer",
          error |-> NoValue]

(***************************************************************************)
(* Responses.                                                              *)
(***************************************************************************)
\* CallError::InvalidParams, with what it keeps of the serde error
InvalidParams(e) == [kind |-> "InvalidParams", detail |-> e]

\* the view of the reply to an RpcApi call: for get_block_by_hash and
\* get_block_by_number the scope the reply is built with,
\* requested_scope.unwrap_or_default()
ReplyView(c) ==
    IF c.api \in {"get_block_by_hash", "get_block_by_number"}
    THEN IF c.args[2] = NoneValue THEN ScopeTxnHash[1] ELSE c.args[2].s
    ELSE "-"

RespResult(c) == [kind |-> "result", of |-> c.api, view |-> ReplyView(c)]
RespError(e) == [kind |-> "error", error |-> e]

\* the code member of the JSON-RPC error object
ErrorObjectCode(e) ==
    CASE e.kind = "Custom" -> e.code
      [] e.kind = "InvalidParams" -> -32602
      [] e.kind = "MethodNotFound" -> -32601
      [] OTHER -> -32000

IsError(r) == r.kind = "error"
IsInvalidParams(r) == r.kind = "error" /\ r.error.kind = "InvalidParams"
RespCode(r) == ErrorObjectCode(r.error)

\* a parse failure answered with the invalid-block-hash code
DispatchParseFailureAs24(m, params) ==
    LET bound == BindParams(m, params)
        c     == ApiCall(m, bound.args)
    IN  IF ~bound.ok
        THEN [pc |-> "done", call |-> NoValue, backendCalls |-> 0,
              resp |-> RespError(RpcErrorCodeInto("InvalidBlockHash"))]
        ELSE IF ApiEntry(c).awaits = "nothing"
        THEN [pc |-> "done", call |-> c, backendCalls |-> 0,
              resp |-> RespError(ApiEntry(c).error)]
        ELSE [pc |-> "await", call |-> c, backendCalls |-> 1, resp |-> NoValue]

\* a parse failure answered with the invalid-block-number code
DispatchParseFailureAs26(m, params) ==
    LET bound == BindParams(m, params)
        c     == ApiCall(m, bound.args)
    IN  IF ~bound.ok
        THEN [pc |-> "done", call |-> NoValue, backendCalls |-> 0,
              resp |-> RespError(RpcErrorCodeInto("InvalidBlockNumber"))]
        ELSE IF ApiEntry(c).awaits = "nothing"
        THEN [pc |-> "done", call |-> c, backendCalls |-> 0,
              resp |-> RespError(ApiEntry(c).error)]
        ELSE [pc |-> "await", call |-> c, backendCalls |-> 1, resp |-> NoValue]

\* the registered closure, run up to its first suspension point
Dispatch(m, params) ==
    LET bound == BindParams(m, params)
        c     == ApiCall(m, bound.args)
    IN  IF ~bound.ok
        THEN [pc |-> "done", call |-> NoValue, backendCalls |-> 0,
              resp |-> RespError(InvalidParams(bound.err))]
        ELSE IF ApiEntry(c).awaits = "nothing"
        THEN [pc |-> "done", call |-> c, backendCalls |-> 0,
              resp |-> RespError(ApiEntry(c).error)]
        ELSE [pc |-> "await", call |-> c, backendCalls |-> 1, resp |-> NoValue]

Registered(name) == {i \in 1..Len(module) : module[i].name = name}

\* the server's answer to a request, up to the first suspension point
Serve(r) ==
    IF Registered(r.method) = {}
    THEN [pc |-> "done", call |-> NoValue, backendCalls |-> 0,
          resp |-> RespError([kind |-> "MethodNotFound"])]
    ELSE Dispatch(module[CHOOSE i \in Registered(r.method) : TRUE], r.params)

(***************************************************************************)
(* Requests clients send.                                                  *)
(***************************************************************************)
Hex(ds) == <<"0", "x">> \o ds
Repeat(c, n) == [i \in 1..n |-> c]

NonHex == JStr(<<"0", "x", "g">>)

Pool(name) ==
    CASE name = "block_hash" ->
            { JStr(Hex(<<"1">>)), JStr(Hex(Repeat("f", HexDigits))), NonHex,
              JStr(TagLatest), JStr(TagPending), JInt(1) }
      [] name = "block_number" ->
            { JInt(-1), JInt(0), JInt(NumberBound - 1), JInt(NumberBound),
              JStr(TagLatest), JStr(TagPending), JStr(Hex(<<"1">>)) }
      [] name = "contract_address" ->
            { JStr(Hex(<<"1">>)), JStr(Hex(Repeat("f", HexDigits))) }
      [] name = "key" ->
            {JStr(Hex(ds)) : ds \in SeqsUpTo({"0", "7", "8", "f"}, HexDigits) \ {<<>>}}
            \cup { JStr(Hex(Repeat("0", HexDigits + 1))), NonHex, JInt(1) }
      [] name = "index" -> { JInt(0), JInt(-1) }
      [] name = "transaction_hash" -> { JStr(Hex(<<"1">>)), NonHex }
      [] name = "requested_scope" ->
            { JStr(ScopeTxnHash), JStr(ScopeFullTxns),
              JStr(ScopeFullTxnAndReceipts), JStr(<<"X">>),
              [t |-> "null", s |-> <<>>, n |-> 0] }
      [] name = "request" -> { JCall, JInt(0) }

\* a value from its pool for each of the first k fields
RECURSIVE ArgTuples(_, _)
ArgTuples(fields, k) ==
    IF k = 0 THEN {<<>>}
    ELSE {Append(t, v) : t \in ArgTuples(fields, k - 1), v \in Pool(fields[k].name)}

FieldNames(fields) == {fields[i].name : i \in 1..Len(fields)}

\* no params; positional params: the first k arguments, in field order;
\* named params: the arguments of a subset of the fields, by name
ParamsFor(fields) ==
    {NoParams}
    \cup UNION { {ArrayParams(t) : t \in ArgTuples(fields, k)} : k \in 0..Len(fields) }
    \cup UNION { { ObjectParams([n \in names |-> t[FieldIndex(fields, n)]]) :
                     t \in ArgTuples(fields, Len(fields)) }
                 : names \in SUBSET FieldNames(fields) }

Requests ==
    UNION { { [method |-> Registrations[i].name, params |-> p] :
                p \in ParamsFor(Registrations[i].fields) }
            : i \in 1..Len(Registrations) }
    \cup { [method |-> <<"starknet_", "unknown">>, params |-> NoParams] }
    \cup { [method |-> GetStateUpdateByHash.name, params |-> ArrayParams(<<v, v>>)] :
               v \in Pool("block_hash") }
    \cup { [method |-> m.name, params |-> ArrayParams(<<JInt(0)>>)] :
               m \in {ChainId, Syncing} }

(***************************************************************************)
(* The header protocol codec (crates/p2p_proto/src/header.rs).             *)
(* A value of a sum type is a tuple <<case, payload>>; an optional field   *)
(* of a protobuf message is <<>> (not set) or <<p>> (set to p).            *)
(***************************************************************************)
PField(name, type) == [name |-> name, type |-> type]

\* the fields of the structs of crate::common, in declaration order
CommonFieldsOf(type) ==
    CASE type = "Patricia" -> << PField("height", "u64"), PField("root", "Hash") >>
      [] type = "Merkle" -> << PField("n_leaves", "u64"), PField("root", "Hash") >>
      [] type = "ConsensusSignature" -> << PField("r", "Felt"), PField("s", "Felt") >>
      [] type = "BlockId" -> << PField("number", "u64"), PField("hash", "Hash") >>
      [] type = "Iteration" ->
            << PField("start", "Start"), PField("direction", "Direction"),
               PField("limit", "u64"), PField("step", "u64") >>
      [] OTHER -> << >>

\* struct SignedBlockHeader
SignedBlockHeaderFields ==
    << PField("block_hash", "Hash"), PField("parent_hash", "Hash"),
       PField("number", "u64"), PField("time", "u64"),
       PField("sequencer_address", "Address"),
       PField("state_diff_commitment", "Hash"),
       PField("state", "Patricia"), PField("transactions", "Merkle"),
       PField("events", "Merkle"), PField("receipts", "Merkle"),
       PField("protocol_version", "String"), PField("gas_price", "Felt"),
       PField("num_storage_diffs", "u64"), PField("num_nonce_updates", "u64"),
       PField("num_declared_classes", "u64"),
       PField("num_deployed_contracts", "u64"),
       PField("signatures", "Vec<ConsensusSignature>") >>

\* the fields of the structs, in declaration order
FieldsOf(type) ==
    CASE type = "SignedBlockHeader" -> SignedBlockHeaderFields
      [] type = "BlockHeadersRequest" -> << PField("iteration", "Iteration") >>
      [] OTHER -> CommonFieldsOf(type)

\* the fields of each struct by name
FieldTable ==
    [t \in {"SignedBlockHeader", "BlockHeadersRequest", "Patricia", "Merkle",
            "ConsensusSignature", "BlockId", "Iteration"} |->
        [n \in {FieldsOf(t)[i].name : i \in 1..Len(FieldsOf(t))} |->
            FieldsOf(t)[CHOOSE i \in 1..Len(FieldsOf(t)) : FieldsOf(t)[i].name = n]]]

FieldNamesOf(type) == DOMAIN FieldTable[type]
FieldOf(type, name) == FieldTable[type][name]

IsStruct(type) == type \in DOMAIN FieldTable
IsFelt(type) == type \in {"Hash", "Address", "Felt"}
IsRepeated(type) == type = "Vec<ConsensusSignature>"
\* the fields protobuf tracks the presence of: messages and oneofs
IsOptional(type) == IsStruct(type) \/ IsFelt(type) \/ type = "Start"

\* a result of try_from_protobuf: the value, or the field name of the error
Ok(v) == [ok |-> TRUE, v |-> <<v>>, field |-> "-"]
Err(field) == [ok |-> FALSE, v |-> <<>>, field |-> field]

\* proto_field(input, field_name)
ProtoField(input, field_name) ==
    IF input = <<>> THEN Err(field_name) ELSE Ok(input[1])

\* derived ToProtobuf, and the impls of the common types
RECURSIVE ToProtobufDerived(_, _)
ToProtobufDerived(type, v) ==
    IF IsStruct(type)
    THEN [n \in FieldNamesOf(type) |->
            LET t == FieldOf(type, n).type
            IN  IF IsOptional(t) THEN <<ToProtobufDerived(t, v[n])>>
                ELSE ToProtobufDerived(t, v[n])]
    ELSE IF IsRepeated(type)
    THEN [i \in 1..Len(v) |-> ToProtobufDerived("ConsensusSignature", v[i])]
    ELSE IF type = "Start"
    THEN IF v[1] = "Hash" THEN <<"Hash", ToProtobufDerived("Hash", v[2])>> ELSE v
    ELSE IF IsFelt(type) THEN [elements |-> <<v>>]
    ELSE v

\* derived TryFromProtobuf, and the impls of the common types: the fields
\* are converted in declaration order and the first error is returned
RECURSIVE TryFromProtobufDerived(_, _, _)
TryFromProtobufDerived(type, p, field_name) ==
    IF IsStruct(type)
    THEN LET conv(n) ==
                LET t == FieldOf(type, n).type
                    f == ProtoField(p[n], n)
                IN  IF IsOptional(t)
                    THEN IF f.ok THEN TryFromProtobufDerived(t, f.v[1], n) ELSE f
                    ELSE TryFromProtobufDerived(t, p[n], n)
             rs == [n \in FieldNamesOf(type) |-> conv(n)]
             bad == {i \in 1..Len(FieldsOf(type)) : ~rs[FieldsOf(type)[i].name].ok}
         IN  IF bad # {}
             THEN rs[FieldsOf(type)[CHOOSE i \in bad : \A j \in bad : i <= j].name]
             ELSE Ok([n \in FieldNamesOf(type) |-> rs[n].v[1]])
    ELSE IF IsRepeated(type)
    THEN LET rs == [i \in 1..Len(p) |->
                       TryFromProtobufDerived("ConsensusSignature", p[i], field_name)]
             bad == {i \in 1..Len(p) : ~rs[i].ok}
         IN  IF bad # {}
             THEN rs[CHOOSE i \in bad : \A j \in bad : i <= j]
             ELSE Ok([i \in 1..Len(p) |-> rs[i].v[1]])
    ELSE IF type = "Start"
    THEN IF p[1] = "Hash"
         THEN LET h == TryFromProtobufDerived("Hash", p[2], field_name)
              IN  IF h.ok THEN Ok(<<"Hash", h.v[1]>>) ELSE h
         ELSE Ok(p)
    ELSE IF IsFelt(type)
    THEN IF p.elements = <<>> THEN Err(field_name) ELSE Ok(p.elements[1])
    ELSE Ok(p)

\* Fin left to the default: header_message is not set
BlockHeadersResponseToProtobufFinUnset(self) ==
    [header_message |->
        IF self[1] = "Header"
        THEN << <<"Header", ToProtobufDerived("SignedBlockHeader", self[2])>> >>
        ELSE <<>>]

\* the arms of the match mixed up: a header written as Fin
BlockHeadersResponseToProtobufHeaderAsFin(self) ==
    [header_message |-> << <<"Fin">> >>]

\* the block number of the header left at its default
BlockHeadersResponseToProtobufNumberUnset(self) ==
    [header_message |->
        << IF self[1] = "Header"
           THEN <<"Header", ToProtobufDerived("SignedBlockHeader",
                                              [self[2] EXCEPT !.number = 0])>>
           ELSE <<"Fin">> >>]

\* impl ToProtobuf<proto::header::BlockHeadersResponse> for BlockHeadersResponse
BlockHeadersResponseToProtobuf(self) ==
    [header_message |->
        << IF self[1] = "Header"
           THEN <<"Header", ToProtobufDerived("SignedBlockHeader", self[2])>>
           ELSE <<"Fin">> >>]

\* an unset header_message read as the default: unwrap_or_default()
BlockHeadersResponseTryFromProtobufEmptyIsDefault(input, field_name) ==
    IF input.header_message = <<>>
    THEN Ok(<<"Fin">>)
    ELSE LET m == input.header_message[1]
         IN  IF m[1] = "Header"
             THEN LET h == TryFromProtobufDerived("SignedBlockHeader", m[2], field_name)
                  IN  IF h.ok THEN Ok(<<"Header", h.v[1]>>) ELSE h
             ELSE Ok(<<"Fin">>)

\* impl TryFromProtobuf<proto::header::BlockHeadersResponse> for BlockHeadersResponse
BlockHeadersResponseTryFromProtobuf(input, field_name) ==
    LET f == ProtoField(input.header_message, field_name)
    IN  IF ~f.ok THEN f
        ELSE LET m == f.v[1]
             IN  IF m[1] = "Header"
                 THEN LET h == TryFromProtobufDerived("SignedBlockHeader", m[2],
                                                      field_name)
                      IN  IF h.ok THEN Ok(<<"Header", h.v[1]>>) ELSE h
                 ELSE Ok(<<"Fin">>)

\* the header of NewBlock::Header replaced by the default response
NewBlockToProtobufDefaultResponse(self) ==
    [maybe_full |->
        << IF self[1] = "Id"
           THEN <<"Id", ToProtobufDerived("BlockId", self[2])>>
           ELSE <<"Header", BlockHeadersResponseToProtobuf(<<"Fin">>)>> >>]

\* impl ToProtobuf<proto::header::NewBlock> for NewBlock
NewBlockToProtobuf(self) ==
    [maybe_full |->
        << IF self[1] = "Id"
           THEN <<"Id", ToProtobufDerived("BlockId", self[2])>>
           ELSE <<"Header", BlockHeadersResponseToProtobuf(self[2])>> >>]

\* the error of the response dropped: unwrap_or_default()
NewBlockTryFromProtobufErrorIsDefault(input, field_name) ==
    IF ~ProtoField(input.maybe_full, field_name).ok
    THEN ProtoField(input.maybe_full, field_name)
    ELSE LET m == ProtoField(input.maybe_full, field_name).v[1]
         IN  IF m[1] = "Id"
             THEN LET i == TryFromProtobufDerived("BlockId", m[2], field_name)
                  IN  IF i.ok THEN Ok(<<"Id", i.v[1]>>) ELSE i
             ELSE LET h == BlockHeadersResponseTryFromProtobuf(m[2], field_name)
                  IN  IF h.ok THEN Ok(<<"Header", h.v[1]>>) ELSE Ok(<<"Header", <<"Fin">>>>)

\* impl TryFromProtobuf<proto::header::NewBlock> for NewBlock
NewBlockTryFromProtobuf(input, field_name) ==
    IF ~ProtoField(input.maybe_full, field_name).ok
    THEN ProtoField(input.maybe_full, field_name)
    ELSE LET m == ProtoField(input.maybe_full, field_name).v[1]
         IN  IF m[1] = "Id"
             THEN LET i == TryFromProtobufDerived("BlockId", m[2], field_name)
                  IN  IF i.ok THEN Ok(<<"Id", i.v[1]>>) ELSE i
             ELSE LET h == BlockHeadersResponseTryFromProtobuf(m[2], field_name)
                  IN  IF h.ok THEN Ok(<<"Header", h.v[1]>>) ELSE h

\* to_protobuf / try_from_protobuf of the four message types of header.rs
ToProtobuf(type, v) ==
    CASE type = "NewBlock" -> NewBlockToProtobuf(v)
      [] type = "BlockHeadersResponse" -> BlockHeadersResponseToProtobuf(v)
      [] OTHER -> ToProtobufDerived(type, v)

TryFromProtobuf(type, p, field_name) ==
    CASE type = "NewBlock" -> NewBlockTryFromProtobuf(p, field_name)
      [] type = "BlockHeadersResponse" -> BlockHeadersResponseTryFromProtobuf(p, field_name)
      [] OTHER -> TryFromProtobufDerived(type, p, field_name)

(***************************************************************************)
(* Values the codec is run on.                                             *)
(***************************************************************************)
\* the k-th sample value of a type: 0 is the protobuf default of every
\* scalar, 1 is not
RECURSIVE Sample(_, _)
Sample(type, k) ==
    IF IsStruct(type)
    THEN [n \in FieldNamesOf(type) |-> Sample(FieldOf(type, n).type, k)]
    ELSE IF IsRepeated(type)
    THEN IF k = 0 THEN <<>> ELSE <<Sample("ConsensusSignature", k)>>
    ELSE IF type = "Start"
    THEN IF k = 0 THEN <<"BlockNumber", 0>> ELSE <<"Hash", 1>>
    ELSE IF type = "Direction" THEN IF k = 0 THEN "Forward" ELSE "Backward"
    ELSE IF type = "String" THEN IF k = 0 THEN <<>> ELSE <<"0.", "11">>
    ELSE k

\* the two samples of a struct and those differing from one in one field
Variants(type) ==
    {Sample(type, 0), Sample(type, 1)}
    \cup UNION { { [Sample(type, k) EXCEPT ![n] = Sample(FieldOf(type, n).type, 1 - k)] :
                     n \in FieldNamesOf(type) } : k \in {0, 1} }

ResponseValues ==
    { <<"Fin">> } \cup { <<"Header", h>> : h \in Variants("SignedBlockHeader") }

ValuesOf(type) ==
    CASE type = "NewBlock" ->
            { <<"Id", i>> : i \in Variants("BlockId") }
            \cup { <<"Header", r>> : r \in ResponseValues }
      [] type = "BlockHeadersResponse" -> ResponseValues
      [] type = "BlockHeadersRequest" ->
            { [iteration |-> i] : i \in Variants("Iteration") }
      [] type = "SignedBlockHeader" -> Variants("SignedBlockHeader")

(***************************************************************************)
(* The wire form of the protobuf messages: a sequence of entries           *)
(* <<field number, payload>>, the payload of a message-typed field being   *)
(* the wire form of that message.  Fields are numbered in declaration      *)
(* order; a scalar that has its default value is not written.              *)
(***************************************************************************)
DefaultOf(type) ==
    CASE type = "String" -> <<>>
      [] type = "Direction" -> "Forward"
      [] OTHER -> 0

\* the cases of the oneofs, in field-number order
CasesOf(type) ==
    CASE type = "NewBlock" -> << PField("Id", "BlockId"), PField("Header", "BlockHeadersResponse") >>
      [] type = "BlockHeadersResponse" ->
            << PField("Header", "SignedBlockHeader"), PField("Fin", "Fin") >>
      [] type = "Start" -> << PField("BlockNumber", "u64"), PField("Hash", "Hash") >>
      [] OTHER -> << >>

CaseNumber(type, case) ==
    CHOOSE i \in 1..Len(CasesOf(type)) : CasesOf(type)[i].name = case

\* the oneof field of the two messages header.rs converts by hand
OneofFieldOf(type) ==
    IF type = "NewBlock" THEN "maybe_full" ELSE "header_message"

Last(s) == s[Len(s)]

RECURSIVE WireEncode(_, _)
RECURSIVE WireEncodeFields(_, _, _)
RECURSIVE WireEncodeCase(_, _)

\* the entry of the selected case of a oneof
WireEncodeCase(type, m) ==
    LET t == CasesOf(type)[CaseNumber(type, m[1])].type
    IN  << << CaseNumber(type, m[1]),
              IF t = "Fin" THEN <<>>
              ELSE IF t = "u64" THEN m[2]
              ELSE WireEncode(t, m[2]) >> >>

\* the entries of the fields i.. of a struct message
WireEncodeFields(type, p, i) ==
    IF i > Len(FieldsOf(type)) THEN <<>>
    ELSE LET f == FieldsOf(type)[i]
             entries ==
                IF IsOptional(f.type)
                THEN IF p[f.name] = <<>> THEN <<>>
                     ELSE << <<i, WireEncode(f.type, p[f.name][1])>> >>
                ELSE IF IsRepeated(f.type)
                THEN [k \in 1..Len(p[f.name]) |->
                         <<i, WireEncode("ConsensusSignature", p[f.name][k])>>]
                ELSE IF p[f.name] = DefaultOf(f.type) THEN <<>>
                ELSE << <<i, p[f.name]>> >>
         IN  entries \o WireEncodeFields(type, p, i + 1)

WireEncode(type, p) ==
    IF IsStruct(type) THEN WireEncodeFields(type, p, 1)
    ELSE IF IsFelt(type)
    THEN IF p.elements = <<>> THEN <<>> ELSE << <<1, p.elements[1]>> >>
    ELSE IF type = "Start" THEN WireEncodeCase(type, p)
    ELSE IF p[OneofFieldOf(type)] = <<>> THEN <<>>
    ELSE WireEncodeCase(type, p[OneofFieldOf(type)][1])

RECURSIVE WireDecode(_, _)
RECURSIVE WireDecodeCase(_, _)

\* the case a oneof is set to: that of the last entry of a known case, or
\* <<>>; entries of unknown numbers are skipped
WireDecodeCase(type, w) ==
    LET es == SelectSeq(w, LAMBDA e : e[1] \in 1..Len(CasesOf(type)))
        c  == CasesOf(type)[Last(es)[1]]
    IN  IF es = <<>> THEN <<>>
        ELSE IF c.type = "Fin" THEN << <<c.name>> >>
        ELSE IF c.type = "u64" THEN << <<c.name, Last(es)[2]>> >>
        ELSE << <<c.name, WireDecode(c.type, Last(es)[2])>> >>

\* the message read from its wire form; entries of unknown numbers are
\* skipped, a scalar without an entry has its default value
WireDecode(type, w) ==
    IF IsStruct(type)
    THEN [n \in FieldNamesOf(type) |->
            LET i  == CHOOSE k \in 1..Len(FieldsOf(type)) : FieldsOf(type)[k].name = n
                t  == FieldsOf(type)[i].type
                es == SelectSeq(w, LAMBDA e : e[1] = i)
            IN  IF t = "Start"
                THEN IF es = <<>> THEN <<>> ELSE WireDecodeCase(t, Last(es)[2])
                ELSE IF IsOptional(t)
                THEN IF es = <<>> THEN <<>> ELSE <<WireDecode(t, Last(es)[2])>>
                ELSE IF IsRepeated(t)
                THEN [k \in 1..Len(es) |-> WireDecode("ConsensusSignature", es[k][2])]
                ELSE IF es = <<>> THEN DefaultOf(t) ELSE Last(es)[2]]
    ELSE IF IsFelt(type)
    THEN LET es == SelectSeq(w, LAMBDA e : e[1] = 1)
         IN  [elements |-> IF es = <<>> THEN <<>> ELSE <<Last(es)[2]>>]
    ELSE IF type = "NewBlock" THEN [maybe_full |-> WireDecodeCase(type, w)]
    ELSE [header_message |-> WireDecodeCase(type, w)]

\* an entry of a field number the schema of the message does not know: one
\* more than the number of the fields it knows
UnknownField(type) ==
    << (IF IsStruct(type) THEN Len(FieldsOf(type))
        ELSE IF IsFelt(type) THEN 1
        ELSE Len(CasesOf(type))) + 1, 0 >>

CodecIdle ==
    /\ pcCodec = "idle"
    /\ codecType = "-"
    /\ codecValue = NoValue
    /\ fieldName = "-"
    /\ protoMsg = NoValue
    /\ wire = NoValue
    /\ decoded = NoValue
    /\ dropped = "-"
    /\ unknownAdded = FALSE

StreamIdle ==
    /\ peer = "-"
    /\ iteration = NoValue
    /\ respPc = "idle"
    /\ toSend = <<>>
    /\ sent = <<>>
    /\ channel = <<>>
    /\ transport = "open"
    /\ reqPc = "idle"
    /\ reply = <<>>
    /\ received = <<>>

(***************************************************************************)
(* The dispatcher as a state machine.                                      *)
(***************************************************************************)
\* client_request not called, no concurrent requests
ClientIdle ==
    /\ clientPc = "idle"
    /\ sleep_time_ms = 0
    /\ attempts = 0
    /\ started = 0
    /\ slept = <<>>
    /\ outcome = NoValue
    /\ returned = NoValue
    /\ flight = <<>>
    /\ backend = NoValue

Idle ==
    /\ pc = "idle"
    /\ req = NoValue
    /\ call = NoValue
    /\ backendCalls = 0
    /\ resp = NoValue

Init ==
    /\ seqError = NoValue
    /\ rpcError = NoValue
    /\ pcServer = "registering"
    /\ module = <<>>
    /\ Idle
    /\ ClientIdle
    /\ CodecIdle
    /\ StreamIdle

\* module.register_async_method(name, closure)?
RegisterMethod ==
    /\ pcServer = "registering"
    /\ Len(module) < Len(Registrations)
    /\ LET next == Registrations[Len(module) + 1]
       IN  IF Registered(next.name) # {}
           THEN /\ pcServer' = "failed"
                /\ module' = module
           ELSE /\ pcServer' = pcServer
                /\ module' = Append(module, next)
    /\ UNCHANGED <<seqError, rpcError, pc, req, call, backendCalls, resp>>
    /\ UNCHANGED <<codecVars, streamVars, clientVars>>

\* server.start(module)
StartServer ==
    /\ pcServer = "registering"
    /\ Len(module) = Len(Registrations)
    /\ pcServer' = "started"
    /\ UNCHANGED <<seqError, rpcError, module, pc, req, call, backendCalls, resp>>
    /\ UNCHANGED <<codecVars, streamVars, clientVars>>

\* a request arrives and its closure runs to its first suspension point
HandleRequest ==
    /\ pcServer = "started"
    /\ pc = "idle"
    /\ \E r \in Requests :
          /\ req' = r
          /\ pc' = Serve(r).pc
          /\ call' = Serve(r).call
          /\ backendCalls' = Serve(r).backendCalls
          /\ resp' = Serve(r).resp
    /\ UNCHANGED <<seqError, rpcError, pcServer, module>>
    /\ UNCHANGED <<codecVars, streamVars, clientVars>>

\* the awaited backend call succeeds
BackendOk ==
    /\ pc = "await"
    /\ pc' = "done"
    /\ resp' = RespResult(call)
    /\ UNCHANGED <<seqError, rpcError, pcServer, module, req, call, backendCalls>>
    /\ UNCHANGED <<codecVars, streamVars, clientVars>>

\* the storage has no such contract (get_code)
StorageMiss ==
    /\ pc = "await"
    /\ ApiEntry(call).awaits = "storage"
    /\ pc' = "done"
    /\ resp' = RespError(RpcErrorCodeInto("ContractNotFound"))
    /\ UNCHANGED <<seqError, rpcError, pcServer, module, req, call, backendCalls>>
    /\ UNCHANGED <<codecVars, streamVars, clientVars>>

\* the call is issued again when the sequencer answers with HTTP 429
SequencerFailsRetriesOn429 ==
    /\ pc = "await"
    /\ ApiEntry(call).awaits = "sequencer"
    /\ \E e \in SequencerErrorsOver({<<>>, BlockIdNeedle, TooManyRequests}) :
          /\ seqError' = e
          /\ IF e.variant = "TransportError" /\ e.message = TooManyRequests
                 /\ backendCalls < 3
             THEN /\ backendCalls' = backendCalls + 1
                  /\ UNCHANGED <<rpcError, resp, pc>>
             ELSE /\ rpcError' = FromSequencerError(e)
                  /\ resp' = RespError(FromSequencerError(e))
                  /\ pc' = "done"
                  /\ UNCHANGED backendCalls
    /\ UNCHANGED <<pcServer, module, req, call>>
    /\ UNCHANGED <<codecVars, streamVars, clientVars>>

\* the awaited sequencer call fails; the error goes through the translator
SequencerFails ==
    /\ pc = "await"
    /\ ApiEntry(call).awaits = "sequencer"
    /\ \E e \in SequencerErrorsOver({<<>>, BlockIdNeedle, TooManyRequests}) :
          /\ seqError' = e
          /\ rpcError' = FromSequencerError(e)
          /\ resp' = RespError(FromSequencerError(e))
    /\ pc' = "done"
    /\ UNCHANGED <<pcServer, module, req, call, backendCalls>>
    /\ UNCHANGED <<codecVars, streamVars, clientVars>>

\* the response is sent; the request's state is dropped
Respond ==
    /\ pc = "done"
    /\ pc' = "idle"
    /\ req' = NoValue
    /\ call' = NoValue
    /\ backendCalls' = 0
    /\ resp' = NoValue
    /\ seqError' = NoValue
    /\ rpcError' = NoValue
    /\ UNCHANGED <<pcServer, module>>
    /\ UNCHANGED <<codecVars, streamVars, clientVars>>

Next ==
    \/ RegisterMethod
    \/ StartServer
    \/ HandleRequest
    \/ BackendOk
    \/ StorageMiss
    \/ SequencerFails
    \/ Respond

Spec == Init /\ [][Next]_vars

(***************************************************************************)
(* The translator on its own: every SequencerError within the bounds.      *)
(***************************************************************************)
InitTranslator ==
    /\ seqError \in SequencerError
    /\ rpcError = NoValue
    /\ pcServer = "registering"
    /\ module = <<>>
    /\ Idle
    /\ ClientIdle
    /\ CodecIdle
    /\ StreamIdle

\* rpc::Error::from(e)
Translate ==
    /\ seqError # NoValue
    /\ rpcError = NoValue
    /\ rpcError' = FromSequencerError(seqError)
    /\ UNCHANGED <<seqError, pcServer, module, pc, req, call, backendCalls, resp>>
    /\ UNCHANGED <<codecVars, streamVars, clientVars>>

NextTranslator == Translate

SpecTranslator == InitTranslator /\ [][NextTranslator]_vars

(***************************************************************************)
(* The codec on its own: every sample message is converted to protobuf,    *)
(* possibly loses one field that protobuf tracks the presence of, possibly *)
(* goes over the wire (where an unknown field may be added), and is        *)
(* converted back.                                                         *)
(***************************************************************************)
\* the messages p with one set optional field (at any depth) not set, each
\* with the name of that field
RECURSIVE Cleared(_, _)
Cleared(type, p) ==
    IF IsStruct(type)
    THEN UNION { IF ~IsOptional(FieldOf(type, n).type) \/ p[n] = <<>> THEN {}
                 ELSE { [field |-> n, msg |-> [p EXCEPT ![n] = <<>>]] }
                      \cup { [field |-> c.field, msg |-> [p EXCEPT ![n] = <<c.msg>>]] :
                               c \in Cleared(FieldOf(type, n).type, p[n][1]) }
                 : n \in FieldNamesOf(type) }
    ELSE IF type \in {"NewBlock", "BlockHeadersResponse"}
    THEN LET o == OneofFieldOf(type)
         IN  IF p[o] = <<>> THEN {}
             ELSE { [field |-> o, msg |-> [p EXCEPT ![o] = <<>>]] }
                  \cup IF Len(p[o][1]) < 2 THEN {}
                       ELSE { [field |-> c.field,
                               msg |-> [p EXCEPT ![o] = << <<p[o][1][1], c.msg>> >>]] :
                                c \in Cleared(CasesOf(type)[CaseNumber(type, p[o][1][1])].type,
                                              p[o][1][2]) }
    ELSE {}

InitCodec ==
    /\ seqError = NoValue
    /\ rpcError = NoValue
    /\ pcServer = "registering"
    /\ module = <<>>
    /\ Idle
    /\ ClientIdle
    /\ codecType \in {"NewBlock", "BlockHeadersResponse", "BlockHeadersRequest",
                      "SignedBlockHeader"}
    /\ codecValue \in ValuesOf(codecType)
    /\ fieldName \in {"message", "maybe_full"}
    /\ pcCodec = "value"
    /\ protoMsg = NoValue
    /\ wire = NoValue
    /\ decoded = NoValue
    /\ dropped = "-"
    /\ unknownAdded = FALSE
    /\ StreamIdle

\* value.to_protobuf()
Encode ==
    /\ pcCodec = "value"
    /\ protoMsg' = ToProtobuf(codecType, codecValue)
    /\ pcCodec' = "proto"
    /\ UNCHANGED <<codecType, codecValue, fieldName, wire, decoded, dropped, unknownAdded>>
    /\ UNCHANGED <<rpcVars, streamVars, clientVars>>

\* a peer's message lacks one of the fields
ClearField ==
    /\ pcCodec = "proto"
    /\ dropped = "-"
    /\ \E c \in Cleared(codecType, protoMsg) :
          /\ protoMsg' = c.msg
          /\ dropped' = c.field
    /\ UNCHANGED <<codecType, codecValue, fieldName, wire, decoded, pcCodec, unknownAdded>>
    /\ UNCHANGED <<rpcVars, streamVars, clientVars>>

\* the protobuf message is written to the wire
Serialize ==
    /\ pcCodec = "proto"
    /\ wire' = WireEncode(codecType, protoMsg)
    /\ pcCodec' = "wire"
    /\ UNCHANGED <<codecType, codecValue, fieldName, protoMsg, decoded, dropped, unknownAdded>>
    /\ UNCHANGED <<rpcVars, streamVars, clientVars>>

\* a peer with a newer schema has written a trailing field
AddUnknownField ==
    /\ pcCodec = "wire"
    /\ ~unknownAdded
    /\ wire' = Append(wire, UnknownField(codecType))
    /\ unknownAdded' = TRUE
    /\ UNCHANGED <<codecType, codecValue, fieldName, protoMsg, decoded, dropped, pcCodec>>
    /\ UNCHANGED <<rpcVars, streamVars, clientVars>>

\* the protobuf message is read from the wire
Parse ==
    /\ pcCodec = "wire"
    /\ protoMsg' = WireDecode(codecType, wire)
    /\ pcCodec' = "parsed"
    /\ UNCHANGED <<codecType, codecValue, fieldName, wire, decoded, dropped, unknownAdded>>
    /\ UNCHANGED <<rpcVars, streamVars, clientVars>>

\* T::try_from_protobuf(message, field_name)
Decode ==
    /\ pcCodec \in {"proto", "parsed"}
    /\ decoded' = TryFromProtobuf(codecType, protoMsg, fieldName)
    /\ pcCodec' = "decoded"
    /\ UNCHANGED <<codecType, codecValue, fieldName, protoMsg, wire, dropped, unknownAdded>>
    /\ UNCHANGED <<rpcVars, streamVars, clientVars>>

NextCodec ==
    \/ Encode
    \/ ClearField
    \/ Serialize
    \/ AddUnknownField
    \/ Parse
    \/ Decode

SpecCodec == InitCodec /\ [][NextCodec]_vars

(***************************************************************************)
(* The header stream: a requester sends a BlockHeadersRequest and reads    *)
(* BlockHeadersResponse messages until Fin.  The responder is an honest    *)
(* one, which follows the protocol, or a faulty peer, which writes what it *)
(* likes.                                                                  *)
(***************************************************************************)
\* the wire form of a response message
ResponseWire(r) ==
    WireEncode("BlockHeadersResponse", BlockHeadersResponseToProtobuf(r))

FinWire == ResponseWire(<<"Fin">>)

\* the wire form of the Header message of each block of the chain; the
\* hash of block n is n
HeaderWire ==
    [n \in 0..ChainTip |->
        ResponseWire(<<"Header", [Sample("SignedBlockHeader", 1)
                                    EXCEPT !.number = n, !.block_hash = n]>>)]

\* what a reader makes of each message that occurs on the streams of the
\* model
ReadResponse ==
    [w \in {FinWire, <<>>} \cup {HeaderWire[n] : n \in 0..ChainTip} |->
        BlockHeadersResponseTryFromProtobuf(WireDecode("BlockHeadersResponse", w),
                                            "response")]

\* the block numbers from n on, every step-th, in the direction, at most
\* `remaining` of them, as far as the chain has them
RECURSIVE Walk(_, _, _, _)
Walk(n, direction, step, remaining) ==
    IF remaining = 0 \/ n < 0 \/ n > ChainTip THEN <<>>
    ELSE <<n>> \o Walk(IF direction = "Forward" THEN n + step ELSE n - step,
                       direction, step, remaining - 1)

\* the blocks a request asks for, in iteration order
HeadersFor(it) == Walk(it.start[2], it.direction, it.step, it.limit)

\* the requester takes what follows Fin as part of the reply
RequesterReadAcceptsAfterFin(rpc, acc, w) ==
    LET Read(r) ==
            IF ~r.ok
            THEN [pc |-> "violation", reply |-> acc, close |-> TRUE]
            ELSE IF r.v[1][1] = "Fin"
            THEN [pc |-> "complete", reply |-> acc, close |-> FALSE]
            ELSE [pc |-> rpc, reply |-> Append(acc, r.v[1][2]), close |-> FALSE]
    IN  Read(ReadResponse[w])

\* the requester reads message w in state pc with the headers `acc`
\* accepted so far: the new state, the headers accepted, and whether it
\* closes the transport
RequesterRead(rpc, acc, w) ==
    LET Read(r) ==
            IF rpc = "complete"
            THEN [pc |-> "violation", reply |-> acc, close |-> TRUE]
            ELSE IF ~r.ok
            THEN [pc |-> "violation", reply |-> acc, close |-> TRUE]
            ELSE IF r.v[1][1] = "Fin"
            THEN [pc |-> "complete", reply |-> acc, close |-> FALSE]
            ELSE [pc |-> "waiting", reply |-> Append(acc, r.v[1][2]), close |-> FALSE]
    IN  Read(ReadResponse[w])

InitStream ==
    /\ seqError = NoValue
    /\ rpcError = NoValue
    /\ pcServer = "registering"
    /\ module = <<>>
    /\ Idle
    /\ ClientIdle
    /\ CodecIdle
    /\ \/ /\ peer = "honest"
          /\ iteration \in
                { [start |-> <<kind, n>>, direction |-> d, limit |-> l, step |-> s] :
                    kind \in {"BlockNumber", "Hash"}, n \in 0..(ChainTip + 1),
                    d \in {"Forward", "Backward"}, l \in 0..MaxLimit,
                    s \in 1..MaxStep }
       \/ peer = "faulty" /\ iteration = Sample("Iteration", 1)
    /\ respPc = "serving"
    /\ toSend = HeadersFor(iteration)
    /\ sent = <<>>
    /\ channel = <<>>
    /\ transport = "open"
    /\ reqPc = "waiting"
    /\ reply = <<>>
    /\ received = <<>>

\* the responder writes the next header
SendHeader ==
    /\ peer = "honest"
    /\ respPc = "serving"
    /\ transport = "open"
    /\ toSend # <<>>
    /\ LET w == HeaderWire[Head(toSend)]
       IN  /\ sent' = Append(sent, w)
           /\ channel' = Append(channel, w)
    /\ toSend' = Tail(toSend)
    /\ UNCHANGED <<peer, iteration, respPc, transport, reqPc, reply, received>>
    /\ UNCHANGED <<rpcVars, codecVars, clientVars>>

\* the responder writes Fin and closes the stream for writing
SendFin ==
    /\ peer = "honest"
    /\ respPc = "serving"
    /\ transport = "open"
    /\ toSend = <<>>
    /\ sent' = Append(sent, FinWire)
    /\ channel' = Append(channel, FinWire)
    /\ respPc' = "done"
    /\ UNCHANGED <<peer, iteration, toSend, transport, reqPc, reply, received>>
    /\ UNCHANGED <<rpcVars, codecVars, clientVars>>

\* a faulty peer writes a message, whatever it has written before
FaultySend ==
    /\ peer = "faulty"
    /\ respPc = "serving"
    /\ transport = "open"
    /\ Len(sent) < MaxFaultyMsgs
    /\ \E w \in {FinWire, HeaderWire[0], <<>>} :
          /\ sent' = Append(sent, w)
          /\ channel' = Append(channel, w)
    /\ UNCHANGED <<peer, iteration, respPc, toSend, transport, reqPc, reply, received>>
    /\ UNCHANGED <<rpcVars, codecVars, clientVars>>

\* a faulty peer ends the stream, with or without a Fin written
FaultyEnd ==
    /\ peer = "faulty"
    /\ respPc = "serving"
    /\ respPc' = "done"
    /\ UNCHANGED <<peer, iteration, toSend, sent, channel, transport, reqPc, reply, received>>
    /\ UNCHANGED <<rpcVars, codecVars, clientVars>>

\* the requester reads the next message
Receive ==
    /\ reqPc \in {"waiting", "complete"}
    /\ transport = "open"
    /\ channel # <<>>
    /\ \E next \in {RequesterRead(reqPc, reply, Head(channel))} :
          /\ reqPc' = next.pc
          /\ reply' = next.reply
          /\ transport' = IF next.close THEN "closed" ELSE transport
    /\ received' = Append(received, Head(channel))
    /\ channel' = Tail(channel)
    /\ UNCHANGED <<peer, iteration, respPc, toSend, sent>>
    /\ UNCHANGED <<rpcVars, codecVars, clientVars>>

\* the requester finds the stream at its end before any Fin
ReceiveEnd ==
    /\ reqPc = "waiting"
    /\ channel = <<>> \/ transport # "open"
    /\ respPc = "done" \/ transport # "open"
    /\ reqPc' = "rejected"
    /\ UNCHANGED <<peer, iteration, respPc, toSend, sent, channel, transport, reply, received>>
    /\ UNCHANGED <<rpcVars, codecVars, clientVars>>

\* either side drops the transport
CloseTransport ==
    /\ transport = "open"
    /\ reqPc = "waiting"
    /\ transport' = "cancelled"
    /\ UNCHANGED <<peer, iteration, respPc, toSend, sent, channel, reqPc, reply, received>>
    /\ UNCHANGED <<rpcVars, codecVars, clientVars>>

NextStream ==
    \/ SendHeader
    \/ SendFin
    \/ FaultySend
    \/ FaultyEnd
    \/ Receive
    \/ ReceiveEnd
    \/ CloseTransport

SpecStream == InitStream /\ [][NextStream]_vars

\* the tasks of the responder and of the requester are scheduled as long as
\* they can run
SpecStreamFair ==
    /\ SpecStream
    /\ WF_vars(SendHeader)
    /\ WF_vars(SendFin)
    /\ WF_vars(Receive)

(***************************************************************************)
(* The test helper client_request (rpc.rs, mod tests): one request, sent   *)
(* again after a sleep while the answer is an HTTP 429.  The result of a   *)
(* request is Ok or a jsonrpsee::types::Error, a variant with its text.    *)
(***************************************************************************)
MAX_SLEEP_TIME_MS == 128000

InitClient ==
    /\ seqError = NoValue
    /\ rpcError = NoValue
    /\ pcServer = "registering"
    /\ module = <<>>
    /\ Idle
    /\ CodecIdle
    /\ StreamIdle
    /\ clientPc = "loop"
    /\ sleep_time_ms = 8000
    /\ attempts = 0
    /\ started = 0
    /\ slept = <<>>
    /\ outcome = NoValue
    /\ returned = NoValue
    /\ flight = <<>>
    /\ backend = NoValue

\* Storage::in_memory(), sequencer::Client::new(), run_server()
RunServer ==
    /\ clientPc = "loop"
    /\ started' = started + 1
    /\ clientPc' = "request"
    /\ UNCHANGED <<sleep_time_ms, attempts, slept, outcome, returned, flight, backend>>
    /\ UNCHANGED <<rpcVars, codecVars, streamVars>>

\* client(addr).request(method, params).await
Request ==
    /\ clientPc = "request"
    /\ attempts' = attempts + 1
    /\ outcome' \in {[ok |-> TRUE, variant |-> "-", text |-> <<>>]}
                    \cup [ok : {FALSE}, variant : {"Request", "Transport", "Internal"},
                          text : SeqsUpTo({TooManyRequests[1], "Internal error"}, 2)]
    /\ clientPc' = "match"
    /\ UNCHANGED <<sleep_time_ms, started, slept, returned, flight, backend>>
    /\ UNCHANGED <<rpcVars, codecVars, streamVars>>

\* the sleep lengthened by a fixed amount
SleepLengthensByFirst ==
    /\ clientPc = "match"
    /\ ~outcome.ok
    /\ outcome.variant = "Request"
    /\ Contains(outcome.text, TooManyRequests)
    /\ ~(sleep_time_ms > MAX_SLEEP_TIME_MS)
    /\ slept' = Append(slept, sleep_time_ms)
    /\ sleep_time_ms' = sleep_time_ms + 8000
    /\ clientPc' = "loop"
    /\ UNCHANGED <<attempts, started, outcome, returned, flight, backend>>
    /\ UNCHANGED <<rpcVars, codecVars, streamVars>>

\* Error::Request(s) if s.contains("(429 Too Many Requests)"), the sleep
\* time not above the maximum: sleep, double the sleep time, loop
Sleep ==
    /\ clientPc = "match"
    /\ ~outcome.ok
    /\ outcome.variant = "Request"
    /\ Contains(outcome.text, TooManyRequests)
    /\ ~(sleep_time_ms > MAX_SLEEP_TIME_MS)
    /\ slept' = Append(slept, sleep_time_ms)
    /\ sleep_time_ms' = sleep_time_ms * 2
    /\ clientPc' = "loop"
    /\ UNCHANGED <<attempts, started, outcome, returned, flight, backend>>
    /\ UNCHANGED <<rpcVars, codecVars, streamVars>>

\* return Ok(r); return Err(e) for any other error, and for a 429 once the
\* sleep time is above the maximum
Return ==
    /\ clientPc = "match"
    /\ \/ outcome.ok
       \/ ~(outcome.variant = "Request" /\ Contains(outcome.text, TooManyRequests))
       \/ sleep_time_ms > MAX_SLEEP_TIME_MS
    /\ returned' = outcome
    /\ clientPc' = "returned"
    /\ UNCHANGED <<sleep_time_ms, attempts, started, slept, outcome, flight, backend>>
    /\ UNCHANGED <<rpcVars, codecVars, streamVars>>

NextClient ==
    \/ RunServer
    \/ Request
    \/ Sleep
    \/ Return

\* the test's task is scheduled as long as it can run: every request and
\* every sleep completes
SpecClient == InitClient /\ [][NextClient]_vars /\ WF_vars(NextClient)

(***************************************************************************)
(* Requests in flight at once on one started server, as the two requests   *)
(* of tests::get_code::returns_abi_and_code_for_known are.  Each request   *)
(* runs its closure up to the await of its RpcApi call, and is resumed     *)
(* when the backend has answered; the backend holds the contracts of the   *)
(* storage and the sequencer's answer, NoValue or an error.                *)
(***************************************************************************)
\* the answer of the backend to an RpcApi call
BackendReply(b, c) ==
    IF ApiEntry(c).awaits = "storage"
    THEN IF c.args[1] \in b.contracts
         THEN RespResult(c)
         ELSE RespError(RpcErrorCodeInto("ContractNotFound"))
    ELSE IF b.sequencer = NoValue
         THEN RespResult(c)
         ELSE RespError(FromSequencerError(b.sequencer))

InitConcurrent ==
    /\ seqError = NoValue
    /\ rpcError = NoValue
    /\ pcServer = "started"
    /\ module = Registrations
    /\ Idle
    /\ CodecIdle
    /\ StreamIdle
    /\ clientPc = "idle"
    /\ sleep_time_ms = 0
    /\ attempts = 0
    /\ started = 0
    /\ slept = <<>>
    /\ outcome = NoValue
    /\ returned = NoValue
    /\ flight = [i \in 1..MaxInFlight |->
                   [pc |-> "idle", conn |-> 0, req |-> NoValue, call |-> NoValue,
                    backendCalls |-> 0, resp |-> NoValue]]
    /\ backend \in [contracts : SUBSET {Deserialize("ContractAddress", JStr(Hex(<<"1">>))).v},
                     sequencer : {NoValue,
                                  [variant |-> "TransportError", code |-> "-",
                                   message |-> TooManyRequests]}]

\* the call of the request accepted is kept where the requests that are
\* awaiting take theirs from
AcceptSharingCall(i) ==
    /\ flight[i].pc = "idle"
    /\ \E r \in { [method |-> GetCode.name, params |-> ArrayParams(<<JStr(Hex(<<"1">>))>>)],
                   [method |-> GetCode.name,
                    params |-> ObjectParams([n \in {"contract_address"} |-> JStr(Hex(<<"1">>))])],
                   [method |-> GetCode.name,
                    params |-> ArrayParams(<<JStr(Hex(Repeat("f", HexDigits)))>>)],
                   [method |-> GetCode.name, params |-> NoParams],
                   [method |-> ChainId.name, params |-> NoParams],
                   [method |-> <<"starknet_", "unknown">>, params |-> NoParams] },
             c \in 1..2 :
          \E s \in {Serve(r)} :
             flight' = [j \in DOMAIN flight |->
                          IF j = i
                          THEN [pc |-> s.pc, conn |-> c, req |-> r, call |-> s.call,
                                backendCalls |-> s.backendCalls, resp |-> s.resp]
                          ELSE IF flight[j].pc = "await" /\ s.pc = "await"
                          THEN [flight[j] EXCEPT !.call = s.call]
                          ELSE flight[j]]
    /\ UNCHANGED <<clientPc, sleep_time_ms, attempts, started, slept, outcome, returned,
                   backend>>
    /\ UNCHANGED <<rpcVars, codecVars, streamVars>>

\* a request arrives on connection c and its closure runs up to its first
\* suspension point
Accept(i) ==
    /\ flight[i].pc = "idle"
    /\ \E r \in { [method |-> GetCode.name, params |-> ArrayParams(<<JStr(Hex(<<"1">>))>>)],
                   [method |-> GetCode.name,
                    params |-> ObjectParams([n \in {"contract_address"} |-> JStr(Hex(<<"1">>))])],
                   [method |-> GetCode.name,
                    params |-> ArrayParams(<<JStr(Hex(Repeat("f", HexDigits)))>>)],
                   [method |-> GetCode.name, params |-> NoParams],
                   [method |-> ChainId.name, params |-> NoParams],
                   [method |-> <<"starknet_", "unknown">>, params |-> NoParams] },
             c \in 1..2 :
          \E s \in {Serve(r)} :
             flight' = [flight EXCEPT ![i] =
                          [pc |-> s.pc, conn |-> c, req |-> r, call |-> s.call,
                           backendCalls |-> s.backendCalls, resp |-> s.resp]]
    /\ UNCHANGED <<clientPc, sleep_time_ms, attempts, started, slept, outcome, returned,
                   backend>>
    /\ UNCHANGED <<rpcVars, codecVars, streamVars>>

\* the awaited RpcApi call of a request returns
Resume(i) ==
    /\ flight[i].pc = "await"
    /\ flight' = [flight EXCEPT ![i].pc = "done",
                                ![i].resp = BackendReply(backend, flight[i].call)]
    /\ UNCHANGED <<clientPc, sleep_time_ms, attempts, started, slept, outcome, returned,
                   backend>>
    /\ UNCHANGED <<rpcVars, codecVars, streamVars>>

NextConcurrent ==
    \E i \in 1..MaxInFlight :
        \/ Accept(i)
        \/ Resume(i)

SpecConcurrent == InitConcurrent /\ [][NextConcurrent]_vars

(***************************************************************************)
(* Properties of the translator, checked under SpecTranslator.             *)
(***************************************************************************)
Translated == rpcError # NoValue
IsStarknet == seqError.variant = "StarknetError"
IsCustom(code) == rpcError.kind = "Custom" /\ rpcError.code = code

\* the RPC code listed for each of the eight dedicated sequencer codes
ListedCode(c) ==
    CASE c \in {"OutOfRangeBlockHash", "BlockNotFound"} -> 24
      [] c \in {"OutOfRangeContractAddress", "UninitializedContract"} -> 20
      [] c = "OutOfRangeTransactionHash" -> 25
      [] c = "OutOfRangeStorageKey" -> 23
      [] c = "TransactionFailed" -> 22
      [] c = "EntryPointNotFound" -> 21

DedicatedCodes == StarknetErrorCode \ {"SchemaValidationError", "MalformedRequest"}

\* C1: a StarknetError with one of the eight dedicated codes is translated
\* to the RPC code listed for it, whatever its message.
C1_DedicatedCodesMapped ==
    (Translated /\ IsStarknet /\ seqError.code \in DedicatedCodes)
        => IsCustom(ListedCode(seqError.code))

\* C1 witness: BlockNotFound with a non-empty message has been translated.
C1_Witness ==
    /\ Translated
    /\ IsStarknet
    /\ seqError.code = "BlockNotFound"
    /\ Len(seqError.message) = MaxMsgLen
    /\ IsCustom(24)

\* C2: MalformedRequest gives 26 "Invalid block number" when the message
\* contains "Block ID should be in the range", the generic call-failed
\* error when it does not.
C2_MalformedRequestCarveOut ==
    (Translated /\ IsStarknet /\ seqError.code = "MalformedRequest")
        => IF \E i \in 1..Len(seqError.message) - 1 :
                 /\ seqError.message[i] = "Block ID should be "
                 /\ seqError.message[i + 1] = "in the range"
           THEN IsCustom(26) /\ rpcError.message = "Invalid block number"
           ELSE rpcError.kind = "Failed"

\* C2 witness: a MalformedRequest whose message holds the substring after
\* other text has been translated to 26.
C2_Witness ==
    /\ Translated
    /\ IsStarknet
    /\ seqError.code = "MalformedRequest"
    /\ seqError.message = <<" [0, 12345).", "Block ID should be ", "in the range">>
    /\ IsCustom(26)

NoDedicatedRule ==
    \/ seqError.variant \in {"DeserializationError", "ParseError", "TransportError"}
    \/ /\ IsStarknet
       /\ seqError.code = "SchemaValidationError"

\* C3: errors without a dedicated rule become the generic call-failed error,
\* which has none of the codes 20..26 and carries the text of the original
\* error, the sequencer's message included.
C3_GenericFailurePreservesMessage ==
    (Translated /\ NoDedicatedRule)
        => /\ rpcError.kind = "Failed"
           /\ ErrorObjectCode(rpcError) \notin 20..26
           /\ rpcError.error = IF seqError.variant = "StarknetError"
                                THEN StarknetErrorDisplay(seqError)
                                ELSE seqError.message
           /\ Contains(rpcError.error, seqError.message)

\* C3 witness: a transport error with a message has been translated.
C3_Witness ==
    /\ Translated
    /\ seqError.variant = "TransportError"
    /\ Len(seqError.message) = 2
    /\ rpcError.kind = "Failed"

\* the message the table pairs with each code
TableMessage(code) ==
    CASE code = 20 -> "Contract not found"
      [] code = 21 -> "Invalid message selector"
      [] code = 22 -> "Invalid call data"
      [] code = 23 -> "Invalid storage key"
      [] code = 24 -> "Invalid block hash"
      [] code = 25 -> "Invalid transaction hash"
      [] code = 26 -> "Invalid block number"

\* C4: an error with one of the codes 20..26 has the table's message for
\* that code and no data, whatever the sequencer's message was.
C4_CodeMessagePairing ==
    (Translated /\ rpcError.kind = "Custom" /\ rpcError.code \in 20..26)
        => /\ rpcError.message = TableMessage(rpcError.code)
           /\ rpcError.data = "None"

\* C4 witness: the hand-built error of OutOfRangeTransactionHash, from a
\* non-empty sequencer message.
C4_Witness ==
    /\ Translated
    /\ IsStarknet
    /\ seqError.code = "OutOfRangeTransactionHash"
    /\ seqError.message # <<>>
    /\ IsCustom(25)

(***************************************************************************)
(* Properties of the dispatcher, checked under Spec.                       *)
(***************************************************************************)
\* a request for a registered method has been taken up
Handled == pc # "idle" /\ Registered(req.method) # {}

TheMethod == module[CHOOSE i \in Registered(req.method) : TRUE]

Absent == [t |-> "absent", s |-> <<>>, n |-> 0]

\* the JSON value a request's params give for a field, in either form
Arg(m, params, name) ==
    IF name \notin FieldNames(m.fields) THEN Absent
    ELSE IF params.form = "array"
         THEN IF FieldIndex(m.fields, name) <= Len(params.items)
              THEN params.items[FieldIndex(m.fields, name)]
              ELSE Absent
    ELSE IF params.form = "object"
         THEN IF name \in DOMAIN params.fields THEN params.fields[name] ELSE Absent
    ELSE Absent

ReqArg(name) == Arg(TheMethod, req.params, name)

IsTagJson(j) == j.t = "string" /\ j.s \in {TagLatest, TagPending}
IsHashJson(j) ==
    j.t = "string" /\ IsHexLiteral(j.s) /\ HexLiteralValue(j.s) < FeltBound
IsNumberJson(j) == j.t = "number" /\ j.n >= 0 /\ j.n < NumberBound

\* the parameters of each method in the order the method table lists them
DeclaredParams(rest) ==
    CASE rest = "getBlockByHash" -> <<"block_hash", "requested_scope">>
      [] rest = "getBlockByNumber" -> <<"block_number", "requested_scope">>
      [] rest = "getStateUpdateByHash" -> <<"block_hash">>
      [] rest = "getStorageAt" -> <<"contract_address", "key", "block_hash">>
      [] rest = "getTransactionByHash" -> <<"transaction_hash">>
      [] rest = "getTransactionByBlockHashAndIndex" -> <<"block_hash", "index">>
      [] rest = "getTransactionByBlockNumberAndIndex" -> <<"block_number", "index">>
      [] rest = "getTransactionReceipt" -> <<"transaction_hash">>
      [] rest = "getCode" -> <<"contract_address">>
      [] rest = "getBlockTransactionCountByHash" -> <<"block_hash">>
      [] rest = "getBlockTransactionCountByNumber" -> <<"block_number">>
      [] rest = "call" -> <<"request", "block_hash">>
      [] OTHER -> <<>>

\* the request is positional and gives every declared parameter
FullPositional ==
    /\ req.params.form = "array"
    /\ Len(req.params.items) = Len(DeclaredParams(req.method[2]))

\* the same arguments, each under the name of its declared parameter
ByName ==
    LET names == DeclaredParams(req.method[2])
    IN  ObjectParams([n \in {names[i] : i \in 1..Len(names)} |->
            req.params.items[CHOOSE i \in 1..Len(names) : names[i] = n]])

\* C5: a request giving its arguments positionally in the declared order and
\* the request giving the same arguments by name are served alike: the same
\* RpcApi call with the same typed arguments and the same backend calls
\* (hence the same response from the same backend), and the same response
\* when the request is answered without a backend call.
C5_DispatchDuality ==
    (Handled /\ FullPositional)
        => LET named == Serve([method |-> req.method, params |-> ByName])
           IN  /\ named.call = call
               /\ named.backendCalls = backendCalls
               /\ (backendCalls = 0 => named.resp = resp)

\* C5 witness: a positional getStorageAt request with three well-formed
\* arguments has been answered by the backend.
C5_Witness ==
    /\ Handled
    /\ FullPositional
    /\ req.method = GetStorageAt.name
    /\ pc = "done"
    /\ resp.kind = "result"

\* a string that is neither a hex literal nor a tag
MalformedHash(j) == j.t = "string" /\ ~IsHexLiteral(j.s) /\ ~IsTagJson(j)

\* C6 as stated: a syntactically invalid block hash is answered with code 24
\* and no backend call is made.
C6_MalformedHashGives24 ==
    (Handled /\ MalformedHash(ReqArg("block_hash")))
        => /\ pc = "done"
           /\ backendCalls = 0
           /\ IsError(resp)
           /\ RespCode(resp) = 24

\* C6 amended: a syntactically invalid block hash is answered with the
\* invalid-params error, not with code 24; the RpcApi method is not
\* invoked and no backend call is made.
C6_MalformedHashInvalidParams ==
    (Handled /\ MalformedHash(ReqArg("block_hash")))
        => /\ pc = "done"
           /\ backendCalls = 0
           /\ call = NoValue
           /\ IsInvalidParams(resp)
           /\ RespCode(resp) # 24

\* C6 witness: getBlockByHash with a malformed hash, by name, was answered.
C6_Witness ==
    /\ Handled
    /\ req.method = GetBlockByHash.name
    /\ req.params.form = "object"
    /\ MalformedHash(ReqArg("block_hash"))
    /\ pc = "done"

\* not an integer of the block number's range and not a tag
MalformedNumber(j) == j # Absent /\ ~IsNumberJson(j) /\ ~IsTagJson(j)

\* C7 as stated: a malformed block number is answered with code 26 before
\* any backend call.
C7_MalformedNumberGives26 ==
    (Handled /\ MalformedNumber(ReqArg("block_number")))
        => /\ pc = "done"
           /\ backendCalls = 0
           /\ IsError(resp)
           /\ RespCode(resp) = 26

\* C7 amended: a malformed block number is answered with the invalid-params
\* error, not with code 26, before any backend call.
C7_MalformedNumberInvalidParams ==
    (Handled /\ MalformedNumber(ReqArg("block_number")))
        => /\ pc = "done"
           /\ backendCalls = 0
           /\ call = NoValue
           /\ IsInvalidParams(resp)
           /\ RespCode(resp) # 26

\* C7 witness: getBlockTransactionCountByNumber with a negative number.
C7_Witness ==
    /\ Handled
    /\ req.method = GetBlockTransactionCountByNumber.name
    /\ ReqArg("block_number") = JInt(-1)
    /\ pc = "done"

\* getStorageAt with a well-formed address and block reference and a key
\* that is a hex literal of the wide container
StorageAtWithWideKey ==
    /\ Handled
    /\ req.method = <<"starknet_", "getStorageAt">>
    /\ IsHashJson(ReqArg("contract_address"))
    /\ IsHashJson(ReqArg("block_hash")) \/ IsTagJson(ReqArg("block_hash"))
    /\ ReqArg("key").t = "string"
    /\ IsHexLiteral(ReqArg("key").s)

KeyValue == HexLiteralValue(ReqArg("key").s)

\* C8: an out-of-range key is answered with code 23 "Invalid storage key",
\* not with invalid params; for an in-range key code 23 is never the range
\* check's answer: it can only follow a sequencer reply.
C8_OverflowingKeyGives23 ==
    StorageAtWithWideKey
        => IF KeyValue >= FeltBound
           THEN /\ pc = "done"
                /\ resp = RespError(Custom(23, "Invalid storage key"))
                /\ backendCalls = 0
           ELSE /\ backendCalls = 1
                /\ (pc = "done" /\ IsError(resp) /\ RespCode(resp) = 23)
                      => seqError.code = "OutOfRangeStorageKey"

\* C8 witness: the smallest out-of-range key (the example's 0x08.. pattern)
\* sent positionally with the tag latest.
C8_Witness ==
    /\ StorageAtWithWideKey
    /\ req.params.form = "array"
    /\ KeyValue = FeltBound
    /\ ReqArg("block_hash") = JStr(TagLatest)
    /\ pc = "done"

\* the seventeen method names
ListedMethods ==
    { <<"starknet_", rest>> : rest \in
        { "getBlockByHash", "getBlockByNumber", "getStateUpdateByHash",
          "getStorageAt", "getTransactionByHash",
          "getTransactionByBlockHashAndIndex",
          "getTransactionByBlockNumberAndIndex", "getTransactionReceipt",
          "getCode", "getBlockTransactionCountByHash",
          "getBlockTransactionCountByNumber", "call", "blockNumber",
          "chainId", "pendingTransactions", "protocolVersion", "syncing" } }

\* C9: registration never fails; once the server is started the module
\* holds exactly the seventeen listed names, pairwise distinct, each with
\* the prefix starknet_; nothing is served before it is started.
C9_SeventeenMethodsRegistered ==
    /\ pcServer # "failed"
    /\ \A i, j \in 1..Len(module) : module[i].name = module[j].name => i = j
    /\ \A i \in 1..Len(module) : module[i].name[1] = "starknet_"
    /\ pcServer = "started"
          => /\ Len(module) = 17
             /\ {module[i].name : i \in 1..Len(module)} = ListedMethods
    /\ pc # "idle" => pcServer = "started"

\* C9 witness: the started server answers starknet_syncing.
C9_Witness ==
    /\ pcServer = "started"
    /\ Len(module) = 17
    /\ Handled
    /\ req.method = <<"starknet_", "syncing">>

\* the names of a method's block-reference parameters
BlockRefParams == {"block_hash", "block_number"}

\* every argument other than `name` is given and deserializes, and no
\* positional argument is given beyond the declared ones
OthersWellFormed(name) ==
    /\ \A i \in 1..Len(TheMethod.fields) :
          TheMethod.fields[i].name # name
              => /\ ReqArg(TheMethod.fields[i].name) # Absent
                 /\ Deserialize(TheMethod.fields[i].type,
                                ReqArg(TheMethod.fields[i].name)).ok
    /\ Len(req.params.items) <= Len(TheMethod.fields)

Accepted == ~IsInvalidParams(resp)

\* C10 as stated: every block-reference parameter accepts a hex-string
\* hash, an integer block number and a tag.
C10_AllThreeFormsAccepted ==
    \A name \in BlockRefParams :
        (/\ Handled
         /\ OthersWellFormed(name)
         /\ \/ IsHashJson(ReqArg(name))
            \/ IsNumberJson(ReqArg(name))
            \/ IsTagJson(ReqArg(name)))
            => Accepted

\* C10 amended: a block_hash parameter accepts a hex-string hash or a tag
\* and rejects an integer; a block_number parameter accepts an integer or a
\* tag and rejects a hex-string hash.
C10_TwoFormsPerParameter ==
    /\ (Handled /\ OthersWellFormed("block_hash"))
          => /\ (IsHashJson(ReqArg("block_hash")) \/ IsTagJson(ReqArg("block_hash")))
                    => Accepted /\ call # NoValue
             /\ IsNumberJson(ReqArg("block_hash")) => ~Accepted
    /\ (Handled /\ OthersWellFormed("block_number"))
          => /\ (IsNumberJson(ReqArg("block_number")) \/ IsTagJson(ReqArg("block_number")))
                    => Accepted /\ call # NoValue
             /\ IsHashJson(ReqArg("block_number")) => ~Accepted

\* C10 witness: getBlockByNumber given an integer and a scope was accepted.
C10_Witness ==
    /\ Handled
    /\ req.method = GetBlockByNumber.name
    /\ IsNumberJson(ReqArg("block_number"))
    /\ OthersWellFormed("block_number")
    /\ pc = "await"

\* a block query that gives a well-formed block reference and no
\* requested_scope, positionally or by name
BlockQueryWithoutScope ==
    /\ Handled
    /\ req.method \in {<<"starknet_", "getBlockByHash">>,
                       <<"starknet_", "getBlockByNumber">>}
    /\ req.params.form \in {"array", "object"}
    /\ ReqArg("requested_scope") = Absent
    /\ ReqArg(TheMethod.fields[1].name) # Absent
    /\ Deserialize(TheMethod.fields[1].type, ReqArg(TheMethod.fields[1].name)).ok

\* the params of the request with the scope "TXN_HASH" added
WithTxnHashScope ==
    IF req.params.form = "array"
    THEN ArrayParams(Append(req.params.items, JStr(ScopeTxnHash)))
    ELSE ObjectParams([n \in DOMAIN req.params.fields \cup {"requested_scope"} |->
                          IF n = "requested_scope" THEN JStr(ScopeTxnHash)
                          ELSE req.params.fields[n]])

\* C11: getBlockByHash / getBlockByNumber without requested_scope, in
\* positional or named form, is accepted and is answered as the same request
\* with the scope "TXN_HASH" is: the same RpcApi method on the same block,
\* the same backend calls, and a reply built with the hash-only view.
C11_OmittedScopeIsTxnHash ==
    BlockQueryWithoutScope
        => LET explicit == Serve([method |-> req.method, params |-> WithTxnHashScope])
           IN  /\ Accepted
               /\ call # NoValue
               /\ explicit.call # NoValue
               /\ explicit.call.api = call.api
               /\ explicit.call.args[1] = call.args[1]
               /\ explicit.backendCalls = backendCalls
               /\ ReplyView(call) = ScopeTxnHash[1]
               /\ RespResult(call) = RespResult(explicit.call)
               /\ (pc = "done" /\ resp.kind = "result")
                      => resp = RespResult(explicit.call)

\* C11 witness: getBlockByHash given only a tag, positionally, was answered
\* with a block reply.
C11_Witness ==
    /\ BlockQueryWithoutScope
    /\ req.method = GetBlockByHash.name
    /\ req.params.form = "array"
    /\ pc = "done"
    /\ resp.kind = "result"

\* a parameter is required when the binding of the request's form has no
\* value for it if it is left out
Required(f) ==
    IF req.params.form = "object"
    THEN ~f.default /\ ~IsOptionType(f.type)
    ELSE ~f.default

\* the fields over which the params of the request fail to parse:
\* required and missing, or given with a value of the wrong type
OffendingFields ==
    {TheMethod.fields[i].name : i \in
        {j \in 1..Len(TheMethod.fields) :
            LET f == TheMethod.fields[j]
            IN  IF ReqArg(f.name) = Absent THEN Required(f)
                ELSE ~Deserialize(f.type, ReqArg(f.name)).ok}}

ParseFails ==
    /\ Handled
    /\ TheMethod.bind # "Ignored"
    /\ OffendingFields # {}

\* C12 as stated: params that fail to parse are answered with the
\* invalid-params error naming the offending field, and the RpcApi method
\* is not invoked.
C12_InvalidParamsNamesField ==
    ParseFails
        => /\ pc = "done"
           /\ IsInvalidParams(resp)
           /\ resp.error.detail.field \in OffendingFields
           /\ call = NoValue
           /\ backendCalls = 0

\* C12 amended: params that fail to parse are answered with the
\* invalid-params error and the RpcApi method is not invoked, so no backend
\* call is made; the error names a field only when a required field is
\* missing from named params (it names the first such field), and names
\* none for a value of the wrong type or a short positional array.
C12_InvalidParamsNoCall ==
    ParseFails
        => /\ pc = "done"
           /\ IsInvalidParams(resp)
           /\ RespCode(resp) = -32602
           /\ call = NoValue
           /\ backendCalls = 0
           /\ resp.error.detail.field # NoField
                 => /\ req.params.form = "object"
                    /\ resp.error.detail.kind = "missing_field"
                    /\ resp.error.detail.field \in OffendingFields
                    /\ ReqArg(resp.error.detail.field) = Absent
           /\ (\/ req.params.form # "object"
               \/ \E n \in OffendingFields : ReqArg(n) # Absent)
                 => resp.error.detail.field = NoField

\* C12 witness: getStorageAt by name with the key left out was answered.
C12_Witness ==
    /\ ParseFails
    /\ req.method = GetStorageAt.name
    /\ req.params.form = "object"
    /\ OffendingFields = {"key"}
    /\ pc = "done"
    /\ resp.error.detail = SerdeError("missing_field", "key")

(***************************************************************************)
(* Properties of the codec, checked under SpecCodec.                       *)
(***************************************************************************)
Decoded == pcCodec = "decoded"
Selectors == {"maybe_full", "header_message"}

\* C13: for every value v of the four message types,
\* try_from_protobuf(to_protobuf(v)) succeeds and returns v, directly and
\* over the wire; no variant is decoded as another.
C13_CodecRoundTrip ==
    (Decoded /\ dropped = "-" /\ ~unknownAdded)
        => /\ decoded.ok
           /\ decoded.v[1] = codecValue
           /\ codecType \in {"NewBlock", "BlockHeadersResponse"}
                 => decoded.v[1][1] = codecValue[1]

\* C13 witness: a NewBlock::Header carrying a header was converted to
\* protobuf and back.
C13_Witness ==
    /\ Decoded
    /\ dropped = "-"
    /\ wire = NoValue
    /\ codecType = "NewBlock"
    /\ codecValue[1] = "Header"
    /\ codecValue[2][1] = "Header"
    /\ decoded.ok

\* C14: a NewBlock whose maybe_full is not set, a BlockHeadersResponse whose
\* header_message is not set and a NewBlock carrying such a response fail
\* to decode; none is decoded as Fin.
C14_EmptySelectorFails ==
    (Decoded /\ dropped \in Selectors)
        => /\ ~decoded.ok
           /\ decoded.v = <<>>

\* C14 witness: a NewBlock carrying a response without header_message was
\* decoded.
C14_Witness ==
    /\ Decoded
    /\ codecType = "NewBlock"
    /\ dropped = "header_message"
    /\ protoMsg.maybe_full # <<>>
    /\ protoMsg.maybe_full[1][2].header_message = <<>>

\* C15 as stated: when a required field is missing, decoding returns an
\* error that carries the name of the missing field.
C15_ErrorNamesMissingField ==
    (Decoded /\ dropped # "-")
        => /\ ~decoded.ok
           /\ decoded.field = dropped

\* C15 amended: when a required field is missing decoding returns an error,
\* never a default; the error carries the name of a missing field of a
\* struct, and for a missing NewBlock or BlockHeadersResponse selector the
\* field_name the caller handed to try_from_protobuf.
C15_ErrorNamesFieldOrArgument ==
    (Decoded /\ dropped # "-")
        => /\ ~decoded.ok
           /\ decoded.v = <<>>
           /\ decoded.field = IF dropped \in Selectors THEN fieldName ELSE dropped

\* C15 witness: a NewBlock without maybe_full was decoded under a
\* field_name other than the selector's.
C15_Witness ==
    /\ Decoded
    /\ codecType = "NewBlock"
    /\ dropped = "maybe_full"
    /\ fieldName # "maybe_full"
    /\ ~decoded.ok

\* C16: the encoding of a record extended by an unknown trailing field
\* decodes to exactly that record, without an error.
C16_UnknownFieldIgnored ==
    (Decoded /\ unknownAdded /\ dropped = "-")
        => /\ decoded.ok
           /\ decoded.v[1] = codecValue

\* C16 witness: a NewBlock::Header carrying a header was decoded from a
\* wire form ending in an unknown field.
C16_Witness ==
    /\ Decoded
    /\ unknownAdded
    /\ dropped = "-"
    /\ Last(wire) = UnknownField(codecType)
    /\ codecType = "NewBlock"
    /\ codecValue[1] = "Header"
    /\ codecValue[2][1] = "Header"
    /\ decoded.ok

(***************************************************************************)
(* Properties of the header stream, checked under SpecStream and           *)
(* SpecStreamFair.                                                         *)
(***************************************************************************)
Honest == peer = "honest"

\* what a reader makes of a message: "Header", "Fin" or "Invalid"
KindOf(w) == IF ReadResponse[w].ok THEN ReadResponse[w].v[1][1] ELSE "Invalid"

FinWritten == \E i \in 1..Len(sent) : KindOf(sent[i]) = "Fin"

\* C17: the messages an honest responder writes to a response stream are
\* zero or more Header messages followed by one Fin: every message is a
\* Header or a Fin, a Fin is the last message written (so there is at most
\* one and no Header follows it), and the responder is done exactly when it
\* has written Fin.
C17_HeadersThenOneFin ==
    Honest
        => /\ \A i \in 1..Len(sent) : KindOf(sent[i]) \in {"Header", "Fin"}
           /\ \A i \in 1..Len(sent) : KindOf(sent[i]) = "Fin" => i = Len(sent)
           /\ respPc = "done" <=> FinWritten

\* C17 witness: an honest responder has written two headers and Fin.
C17_Witness ==
    /\ Honest
    /\ respPc = "done"
    /\ Len(sent) = 3
    /\ KindOf(sent[1]) = "Header"
    /\ KindOf(sent[2]) = "Header"
    /\ KindOf(sent[3]) = "Fin"

\* C18: a request to an honest responder is eventually answered with Fin
\* unless the transport is dropped, and a request with an empty result set
\* (one starting past the chain tip among them) gets a stream of exactly
\* one message, Fin.
C18_FinEventually ==
    /\ [](Honest /\ HeadersFor(iteration) = <<>> /\ respPc = "done"
             => sent = <<FinWire>> /\ KindOf(sent[1]) = "Fin")
    /\ Honest ~> (transport = "cancelled" \/ (respPc = "done" /\ reqPc = "complete"))

\* C18 witness: a request starting past the chain tip was answered and the
\* requester has read exactly one message, Fin.
C18_Witness ==
    /\ Honest
    /\ iteration.start[2] > ChainTip
    /\ iteration.limit > 0
    /\ reqPc = "complete"
    /\ Len(received) = 1
    /\ KindOf(received[1]) = "Fin"
    /\ reply = <<>>

\* the messages read after a Fin was read
ReadAfterFin ==
    {i \in 1..Len(received) : \E j \in 1..(i - 1) : KindOf(received[j]) = "Fin"}

\* the headers read before the first message that is not a header
RECURSIVE LeadingHeaders(_)
LeadingHeaders(ws) ==
    IF ws = <<>> \/ KindOf(ws[1]) # "Header" THEN <<>>
    ELSE <<ReadResponse[ws[1]].v[1][2]>> \o LeadingHeaders(Tail(ws))

\* C19: once an honest responder has written Fin it writes nothing more to
\* the stream; a requester that reads a message after Fin is in the
\* protocol-violation state with the transport closed, and its reply holds
\* only headers read before Fin.
C19_NothingAfterFin ==
    /\ [][(Honest /\ FinWritten) => sent' = sent]_vars
    /\ [](ReadAfterFin # {} => reqPc = "violation" /\ transport = "closed")
    /\ [](reply = LeadingHeaders(received))

\* C19 witness: a requester has read a header, Fin and one more message.
C19_Witness ==
    /\ Len(received) = 3
    /\ KindOf(received[1]) = "Header"
    /\ KindOf(received[2]) = "Fin"
    /\ reqPc = "violation"
    /\ transport = "closed"
    /\ Len(reply) = 1

\* C20: the requester reports a reply as complete only if it has read a
\* Fin that was written to the stream; a stream found at its end without
\* Fin is rejected, whatever headers were read from it.
C20_NoFinNoReply ==
    /\ reqPc = "complete"
          => \E i \in 1..Len(received) :
                /\ received[i] = FinWire
                /\ i <= Len(sent)
                /\ sent[i] = FinWire
    /\ reqPc = "rejected"
          => /\ \A i \in 1..Len(received) : received[i] # FinWire
             /\ respPc = "done" \/ transport # "open"

\* C20 witness: headers were read from a stream that ended without Fin and
\* the requester rejected it.
C20_Witness ==
    /\ reqPc = "rejected"
    /\ respPc = "done"
    /\ transport = "open"
    /\ Len(reply) = 2
    /\ \A i \in 1..Len(sent) : sent[i] # FinWire

\* the block numbers of the Header messages written, in the order written
SentNumbers ==
    LET hs == SelectSeq(sent, LAMBDA w : KindOf(w) = "Header")
    IN  [i \in 1..Len(hs) |-> ReadResponse[hs[i]].v[1][2].number]

\* +1 for a Forward iteration, -1 for a Backward one
Sign == IF iteration.direction = "Forward" THEN 1 ELSE -1

\* C21: the headers an honest responder writes are in iteration order: the
\* first is the header of the start block, each next one is exactly `step`
\* blocks further in the direction of the request, so the block numbers are
\* strictly increasing for Forward and strictly decreasing for Backward.
C21_IterationOrder ==
    (Honest /\ iteration.step >= 1)
        => /\ SentNumbers # <<>> => SentNumbers[1] = iteration.start[2]
           /\ \A i \in 1..(Len(SentNumbers) - 1) :
                 /\ SentNumbers[i + 1] = SentNumbers[i] + Sign * iteration.step
                 /\ iteration.direction = "Forward" => SentNumbers[i + 1] > SentNumbers[i]
                 /\ iteration.direction = "Backward" => SentNumbers[i + 1] < SentNumbers[i]

\* C21 witness: a Backward request with step 2 from the tip was answered
\* with the headers of the tip and of the block two below it.
C21_Witness ==
    /\ Honest
    /\ iteration.direction = "Backward"
    /\ iteration.step = 2
    /\ respPc = "done"
    /\ SentNumbers = <<ChainTip, ChainTip - 2>>

\* the block the iteration would visit after the headers written
NextBlock == iteration.start[2] + Len(SentNumbers) * Sign * iteration.step

\* C22: an honest responder never writes more Header messages than the
\* limit of the request, and when it is done it has written fewer than the
\* limit only if the chain lacks the next block of the iteration; a request
\* whose blocks the chain all has gets exactly `limit` headers, then Fin.
C22_LimitBoundsHeaders ==
    Honest
        => /\ Len(SentNumbers) <= iteration.limit
           /\ (respPc = "done" /\ Len(SentNumbers) < iteration.limit)
                 => NextBlock \notin 0..ChainTip
           /\ respPc = "done"
                 => /\ Len(sent) = Len(SentNumbers) + 1
                    /\ KindOf(sent[Len(sent)]) = "Fin"

\* C22 witness: a Forward request with limit 2 from block 0 of a chain with
\* more than 2 blocks was answered with exactly 2 headers and Fin.
C22_Witness ==
    /\ Honest
    /\ iteration.direction = "Forward"
    /\ iteration.start[2] = 0
    /\ iteration.step = 1
    /\ iteration.limit = 2
    /\ ChainTip + 1 > iteration.limit
    /\ respPc = "done"
    /\ SentNumbers = <<0, 1>>
    /\ Len(sent) = 3
    /\ KindOf(sent[3]) = "Fin"

\* the sequencer answered the awaited call with HTTP 429
Got429 ==
    /\ pc # "idle"
    /\ seqError # NoValue
    /\ seqError.variant = "TransportError"
    /\ Contains(seqError.message, TooManyRequests)

\* C24: the dispatcher never retries: a request issues at most one backend
\* call, a request awaiting its backend call goes on only to its response
\* without another call, and a sequencer reply of HTTP 429 ends the request
\* with the generic call-failed error carrying the transport error's text,
\* with none of the codes 20..26.
C24_NeverRetries ==
    /\ [](backendCalls <= 1)
    /\ [][pc = "await" => /\ pc' = "done"
                          /\ backendCalls' = backendCalls
                          /\ call' = call]_vars
    /\ [](Got429 => /\ pc = "done"
                    /\ backendCalls = 1
                    /\ resp = RespError(Failed(seqError.message))
                    /\ RespCode(resp) \notin 20..26
                    /\ Contains(resp.error.error, TooManyRequests))

\* C24 witness: a request that made one sequencer call got HTTP 429 and was
\* answered with the call-failed error.
C24_Witness ==
    /\ Got429
    /\ pc = "done"
    /\ backendCalls = 1
    /\ resp.kind = "error"
    /\ resp.error.kind = "Failed"

\* the JSON value starknet_getStateUpdateByHash takes its block reference
\* from, if the params have one of the two forms: the value under the key
\* block_hash of an object, or the only element of an array
BlockRef(p) ==
    IF p.form = "object"
    THEN IF "block_hash" \in DOMAIN p.fields THEN <<p.fields["block_hash"]>> ELSE <<>>
    ELSE IF p.form = "array" /\ Len(p.items) = 1 THEN <<p.items[1]>>
    ELSE <<>>

\* C25: starknet_getStateUpdateByHash binds its argument by the shape of
\* the params: from the key block_hash of an object, else from the single
\* positional element.  Either way get_state_update_by_hash is called with
\* the value the block reference deserializes to, so both forms of the same
\* reference make the same call; params of neither form, or with a
\* malformed reference, are answered with invalid params and no call.
C25_StateUpdateBindsByShape ==
    (req # NoValue /\ req.method = <<"starknet_", "getStateUpdateByHash">>)
        => LET ref == BlockRef(req.params)
           IN  IF ref # <<>> /\ Deserialize("BlockHashOrTag", ref[1]).ok
               THEN /\ call = [api |-> "get_state_update_by_hash",
                               args |-> <<Deserialize("BlockHashOrTag", ref[1]).v>>]
                    /\ backendCalls = 1
                    /\ ~IsInvalidParams(resp)
               ELSE /\ call = NoValue
                    /\ backendCalls = 0
                    /\ IsInvalidParams(resp)

\* C25 witness: the named form of a request with a block hash awaits
\* get_state_update_by_hash.
C25_Witness ==
    /\ req # NoValue
    /\ req.method = <<"starknet_", "getStateUpdateByHash">>
    /\ req.params.form = "object"
    /\ pc = "await"
    /\ call.api = "get_state_update_by_hash"
    /\ call.args[1].k = "Hash"

\* the request with the same params sent to starknet_chainId
AsChainId(r) == [method |-> <<"starknet_", "chainId">>, params |-> r.params]

\* C26: starknet_syncing is served by the chain_id handler: whatever its
\* params, the request makes the call a starknet_chainId request with the
\* same params makes, so its response is the chainId response for every
\* outcome of the backend, and a result is a chain id, never a
\* syncing-status record.
C26_SyncingServedByChainId ==
    (req # NoValue /\ req.method = <<"starknet_", "syncing">>)
        => /\ call = Serve(AsChainId(req)).call
           /\ call = [api |-> "chain_id", args |-> <<>>]
           /\ backendCalls = Serve(AsChainId(req)).backendCalls
           /\ ~IsInvalidParams(resp)
           /\ pc = "await" => resp = Serve(AsChainId(req)).resp
           /\ (pc = "done" /\ ~IsError(resp)) => resp = RespResult(Serve(AsChainId(req)).call)
           /\ (pc = "done" /\ IsError(resp)) => resp = RespError(FromSequencerError(seqError))

\* C26 witness: starknet_syncing, sent with a positional argument, is
\* answered with a chain id.
C26_Witness ==
    /\ req # NoValue
    /\ req.method = <<"starknet_", "syncing">>
    /\ req.params = ArrayParams(<<JInt(0)>>)
    /\ pc = "done"
    /\ resp = [kind |-> "result", of |-> "chain_id", view |-> "-"]

\* the error is a StarknetError with code MalformedRequest
IsMalformedRequest == IsStarknet /\ seqError.code = "MalformedRequest"

\* the same error with an empty message
WithoutMessage(e) == [e EXCEPT !.message = <<>>]

\* C27: code 26 is produced only for a StarknetError with code
\* MalformedRequest whose message contains "Block ID should be in the
\* range".  The substring in any other error changes nothing: the error is
\* translated as the same error without the text is (the same kind, the same
\* code and message when it has a dedicated code), so SchemaValidationError
\* and the three non-Starknet variants stay generic and BlockNotFound gives
\* 24.
C27_Code26OnlyForMalformedRequest ==
    Translated
        => /\ IsCustom(26) <=> (IsMalformedRequest /\ Contains(seqError.message, BlockIdNeedle))
           /\ ~IsMalformedRequest
                 => /\ rpcError.kind = FromSequencerError(WithoutMessage(seqError)).kind
                    /\ rpcError.kind = "Custom"
                          => rpcError = FromSequencerError(WithoutMessage(seqError))
           /\ (Contains(seqError.message, BlockIdNeedle) /\ NoDedicatedRule)
                 => rpcError.kind = "Failed"
           /\ (Contains(seqError.message, BlockIdNeedle) /\ IsStarknet
                  /\ seqError.code = "BlockNotFound")
                 => IsCustom(24)

\* C27 witness: a SchemaValidationError whose message is the block-id text
\* has been translated to the generic call-failed error.
C27_Witness ==
    /\ Translated
    /\ IsStarknet
    /\ seqError.code = "SchemaValidationError"
    /\ seqError.message = BlockIdNeedle
    /\ rpcError.kind = "Failed"

\* the result is an error client_request retries on
Is429(o) == ~o.ok /\ o.variant = "Request" /\ Contains(o.text, TooManyRequests)

\* the sleeps of a call that is answered with 429 every time
AllSleeps == <<8000, 16000, 32000, 64000, 128000>>

\* C28: client_request terminates and bounds its retries.  It sends at most
\* 6 requests, sleeping 8, 16, 32, 64 and 128 seconds between them; it sends
\* again only after an Error::Request holding "(429 Too Many Requests)";
\* Ok and every other error are returned at once, the 429 is returned once
\* the sleep time is above 128000 ms; every request goes to a server, a
\* storage and a sequencer client built for it.
C28_ClientRequestBoundsRetries ==
    /\ <>(clientPc = "returned")
    /\ [](/\ attempts <= 6
          /\ slept = SubSeq(AllSleeps, 1, Len(slept))
          /\ clientPc \in {"match", "returned"}
                => /\ Len(slept) = attempts - 1
                   /\ started = attempts
          /\ clientPc = "request" => started = attempts + 1
          /\ clientPc = "returned" => returned = outcome
          /\ (clientPc = "returned" /\ Is429(returned))
                => (attempts = 6 /\ slept = AllSleeps /\ sleep_time_ms > 128000))
    /\ [][ /\ (clientPc = "match" /\ ~Is429(outcome))
                => (clientPc' = "returned" /\ returned' = outcome)
           /\ attempts' # attempts
                => (attempts' = attempts + 1 /\ started = attempts'
                    /\ (attempts > 0 => Is429(outcome)))
           /\ slept' # slept
                => (Is429(outcome) /\ slept' = Append(slept, sleep_time_ms)
                    /\ sleep_time_ms' = 2 * sleep_time_ms)]_vars

\* C28 witness: the sixth request was answered with 429 too, and the error
\* was returned after sleeps of 8, 16, 32, 64 and 128 seconds.
C28_Witness ==
    /\ clientPc = "returned"
    /\ attempts = 6
    /\ ~returned.ok
    /\ returned.variant = "Request"
    /\ Contains(returned.text, TooManyRequests)
    /\ slept = <<8000, 16000, 32000, 64000, 128000>>

\* the response to request r sent alone to a server whose backend is b
Alone(r, b) ==
    LET Answer(s) == IF s.pc = "done" THEN s.resp ELSE BackendReply(b, s.call)
    IN  Answer(Serve(r))

\* C23: requests in flight at once are independent.  However the requests,
\* on one connection or on several, are interleaved at their suspension
\* points, each is answered as it is when run alone against the same
\* backend state, and it awaits the call it makes when run alone; a step of
\* one request changes neither another request's state nor the module nor
\* the backend.
C23_ConcurrentRequestsIndependent ==
    /\ [](\A i \in DOMAIN flight :
            /\ flight[i].pc = "done" => flight[i].resp = Alone(flight[i].req, backend)
            /\ flight[i].pc = "await"
                  => /\ flight[i].call = Serve(flight[i].req).call
                     /\ flight[i].backendCalls = 1)
    /\ [][ /\ module' = module
           /\ backend' = backend
           /\ \A i, j \in DOMAIN flight :
                 (i # j /\ flight'[i] # flight[i]) => flight'[j] = flight[j] ]_vars

\* C23 witness: on one connection starknet_getCode has been answered with
\* the code while a starknet_chainId request accepted before it is still
\* awaiting its call.
C23_Witness ==
    /\ DOMAIN flight = 1..MaxInFlight
    /\ flight[1].pc = "await"
    /\ flight[1].call.api = "chain_id"
    /\ flight[2].pc = "done"
    /\ flight[2].conn = flight[1].conn
    /\ flight[2].req.method = <<"starknet_", "getCode">>
    /\ flight[2].req.params.form = "object"
    /\ flight[2].resp = [kind |-> "result", of |-> "get_code", view |-> "-"]

====
